---- MODULE Spec2Model ----
(***************************************************************************)
(* Streaming, VAD-gated incremental transcription engine                   *)
(* (server/asr.py, class ASRProcessor).                                    *)
(*                                                                         *)
(* Units: probabilities, confidences, temperatures and log-probabilities   *)
(* are floats in the source; here they are integers in thousandths         *)
(* (0.7 is 700, avg_logprob -0.5 is -500).  A frame is one 20 ms block of  *)
(* 320 int16 samples; it is represented by an identifier of its content    *)
(* (pcm) together with the verdict of the VAD on it.  Text is a sequence   *)
(* of one-character strings.                                               *)
(***************************************************************************)
EXTENDS Integers, Sequences, FiniteSets, TLC

(***************************************************************************)
(* Program constants                                                       *)
(***************************************************************************)
sample_rate == 16000
sample_bytes == 2
frame_duration == 20
frame_size == (sample_rate * frame_duration) \div 1000
frame_bytes == frame_size * sample_bytes
partial_every == 25
cache_max_size == 100
close_code == 1000
audio_buffer_maxlen == 1000
beam_size_partial == 1
beam_size_final == 2
temperature == 0
no_speech_threshold == 600
retry_temperature == 200
retry_no_speech_threshold == 300
retry_no_speech_prob == 800
partial_default_confidence == 700
partial_retry_default_confidence == 500
final_default_confidence == 850
final_retry_default_confidence == 600
\* process_audio: its own decode parameters and default
process_audio_beam_size == 2
process_audio_temperature == 0
process_audio_no_speech_threshold == 600
warmup_beam_size == 1
warmup_temperature == 0
warmup_no_speech_threshold == 900
process_audio_default_confidence == 700
app_vad_tail_ms == 250
\* the timing scenario: 1.0 s of speech, then 0.6 s of silence, in 20 ms chunks
ScenarioSpeechFrames == 50
ScenarioSilenceFrames == 30

(***************************************************************************)
(* Bounds of the model                                                     *)
(***************************************************************************)
\* longest speech buffer of one utterance
MaxFrames == 26
\* utterance onsets in one behaviour
MaxUtterances == 2
\* frames of one chunk, where chunks of several frames are fed
MaxChunkFrames == 2
\* a pause is fed after at most MaxShort speech frames, or once a Partial was due
MaxShort == 1
\* silence frames fed in a row after the speech of a tracked run
MaxSilenceRun == 3
\* entries short of a full cache at the start of a long-running instance
MaxCacheRoom == 2
\* longest speech buffer of the second instance
MaxOtherFrames == 2
\* longest speech buffer while two threads call the instance
MaxThreadFrames == 2
\* most backend invocations counted from construction on
MaxInvocations == 3
\* most chunks a client sends on one connection
MaxSessionChunks == 2

\* most speech frames fed in a row under continuous speech
MaxContinuous == 1001

\* configured silence tails (ms) of the general specification
VadTailChoices == {30, 40}

VARIABLES
    vad_tail_ms,          \* config["vad_tail_ms"]
    max_silence_frames,   \* self.max_silence_frames
    speech_frames,        \* self.speech_frames: pcm ids of the buffered frames
    silence_count,        \* self.silence_count
    speech_triggered,     \* self.speech_triggered
    partial_text,         \* self.partial_text
    transcription_cache,  \* self.transcription_cache: key -> [text, confidence]
    pending,              \* frames of the chunk in progress not yet processed
    result,               \* what the last step returned (type "none": None)
    step,                 \* the last step: its kind, its frame, the decode it asked for
    calls,                \* backend invocations made by the last step, in order
    utterances,           \* utterance onsets so far
    scen,                 \* observer of a run speech^n silence^m begun in Idle
    obs,                  \* observer of the current utterance's trailing silence
    decoded,              \* observer: first non-empty decode of each buffer
    recv,                 \* the chunk of the call in progress or just ended, as bytes
    other,                \* the fields of a second instance, once constructed
    lock,                 \* self.lock: the thread that holds it, or "free"
    pc,                   \* where each thread is in its call
    conn,                 \* the open /ws/asr connections, and the one whose chunk
                          \* the last step processed
    backend,              \* self.model: whether it was created and warmed up, and
                          \* its invocations as counted from construction on
    ws                    \* the event loop of the server: where the handler of
                          \* each connection is, what it has read and sent

engine == <<vad_tail_ms, max_silence_frames, speech_frames, silence_count,
            speech_triggered, partial_text, transcription_cache>>
vars == <<vad_tail_ms, max_silence_frames, speech_frames, silence_count,
          speech_triggered, partial_text, transcription_cache, pending,
          result, step, calls, utterances, scen, obs, decoded, recv,
          other, lock, pc, conn, backend, ws>>
\* what a call made by the one caller of the one instance leaves alone
apart == <<other, lock, pc, conn, backend, ws>>

Threads == {"t1", "t2"}
Connections == {"c1", "c2"}

(***************************************************************************)
(* Text: strip, join and the ASR normalization                             *)
(***************************************************************************)
RECURSIVE lstrip(_)
lstrip(s) == IF s # <<>> /\ Head(s) = " " THEN lstrip(Tail(s)) ELSE s

RECURSIVE rstrip(_)
rstrip(s) ==
    IF s # <<>> /\ s[Len(s)] = " " THEN rstrip(SubSeq(s, 1, Len(s) - 1)) ELSE s

strip(s) == rstrip(lstrip(s))

RECURSIVE join(_)
join(texts) ==
    IF texts = <<>> THEN <<>>
    ELSE IF Len(texts) = 1 THEN texts[1]
    ELSE texts[1] \o <<" ">> \o join(Tail(texts))

lower(s) == [i \in 1..Len(s) |-> IF s[i] = "A" THEN "a" ELSE s[i]]

RECURSIVE split_join(_)
split_join(s) ==
    IF lstrip(s) = <<>> THEN <<>>
    ELSE LET t == lstrip(s)
         IN IF Tail(t) # <<>> /\ Head(Tail(t)) = " "
            THEN IF lstrip(Tail(t)) = <<>> THEN <<Head(t)>>
                 ELSE <<Head(t), " ">> \o split_join(Tail(t))
            ELSE <<Head(t)>> \o split_join(Tail(t))

normalize_bulgarian(text) ==
    IF text = <<>> THEN <<>> ELSE strip(split_join(lower(text)))

(***************************************************************************)
(* Events                                                                  *)
(***************************************************************************)
Event(type, text, confidence) ==
    [type |-> type, text |-> text, confidence |-> confidence]

None == Event("none", <<>>, 0)

(***************************************************************************)
(* The decode backend: what one call of model.transcribe can do            *)
(***************************************************************************)
Segment(text, avg_logprob) == [text |-> text, avg_logprob |-> avg_logprob]

Outcome(raises, segments, no_speech_prob, one_shot, language) ==
    [raises |-> raises, segments |-> segments,
     no_speech_prob |-> no_speech_prob, one_shot |-> one_shot,
     language |-> language]

\* one_shot: the segments are a generator (faster-whisper), consumed by the
\* first iteration; otherwise a list (the test doubles).  language: the
\* language the backend reports to have detected.
Outcomes ==
    { Outcome(TRUE, <<>>, 0, FALSE, "bg"),
      Outcome(FALSE, <<>>, 900, FALSE, "bg"),
      Outcome(FALSE, <<Segment(<<" ">>, -200)>>, 800, FALSE, "bg"),
      Outcome(FALSE, <<Segment(<<" ", "A">>, 0), Segment(<<" ">>, -10000)>>, 100, FALSE, "en"),
      Outcome(FALSE, <<Segment(<<"A">>, 0), Segment(<<"b">>, -10000)>>, 900, TRUE, "bg") }

\* slip: the lower clamp is missing
segment_confidence_no_floor(avg_logprob) ==
    IF avg_logprob + 1000 < 1000 THEN avg_logprob + 1000 ELSE 1000
segment_confidence(avg_logprob) ==
    LET c == avg_logprob + 1000
        lo == IF c > 0 THEN c ELSE 0
    IN IF lo < 1000 THEN lo ELSE 1000

RECURSIVE sum(_)
sum(xs) == IF xs = <<>> THEN 0 ELSE Head(xs) + sum(Tail(xs))

transcribed_text(o) ==
    normalize_bulgarian(join([i \in 1..Len(o.segments) |-> strip(o.segments[i].text)]))

\* the second iteration over the segments sees nothing when they are a generator
average_confidence(o, default) ==
    LET segs == IF o.one_shot THEN <<>> ELSE o.segments
        confidences == [i \in 1..Len(segs) |-> segment_confidence(segs[i].avg_logprob)]
    IN IF confidences # <<>> THEN sum(confidences) \div Len(confidences) ELSE default

\* slip: the Final request is issued with the Partial beam size
Call_partial_beam(kind, retry, audio, outcome) ==
    [kind |-> kind, retry |-> retry, audio |-> audio, outcome |-> outcome,
     language |-> "bg", beam_size |-> beam_size_partial,
     temperature |-> IF retry THEN retry_temperature ELSE temperature,
     no_speech_threshold |-> IF retry THEN retry_no_speech_threshold
                             ELSE no_speech_threshold,
     condition_on_previous_text |-> FALSE,
     word_timestamps |-> (kind = "final")]
\* slip: the retry repeats the primary request with its parameters unchanged
Call_retry_unchanged(kind, retry, audio, outcome) ==
    [kind |-> kind, retry |-> retry, audio |-> audio, outcome |-> outcome,
     language |-> "bg",
     beam_size |-> IF kind = "partial" THEN beam_size_partial ELSE beam_size_final,
     temperature |-> temperature,
     no_speech_threshold |-> no_speech_threshold,
     condition_on_previous_text |-> FALSE,
     word_timestamps |-> (kind = "final")]
\* one invocation of model.transcribe: its arguments and what it did
Call(kind, retry, audio, outcome) ==
    [kind |-> kind, retry |-> retry, audio |-> audio, outcome |-> outcome,
     language |-> "bg",
     beam_size |-> IF kind = "partial" THEN beam_size_partial
                   ELSE IF retry THEN beam_size_final + 1 ELSE beam_size_final,
     temperature |-> IF retry THEN retry_temperature ELSE temperature,
     no_speech_threshold |-> IF retry THEN retry_no_speech_threshold
                             ELSE no_speech_threshold,
     condition_on_previous_text |-> FALSE,
     word_timestamps |-> (kind = "final")]

\* slip: the comparison with 0.8 is not strict
retry_needed_inclusive(text, no_speech_prob) ==
    text = <<>> /\ no_speech_prob >= retry_no_speech_prob
retry_needed(text, no_speech_prob) ==
    text = <<>> /\ no_speech_prob > retry_no_speech_prob

\* the inference of one decode request: the primary call and, on empty text
\* with a high no-speech probability, one retry
run_inference(kind, audio, o1, o2) ==
    LET default == IF kind = "partial" THEN partial_default_confidence
                   ELSE final_default_confidence
        retry_default == IF kind = "partial" THEN partial_retry_default_confidence
                         ELSE final_retry_default_confidence
        first == <<Call(kind, FALSE, audio, o1)>>
        both == <<Call(kind, FALSE, audio, o1), Call(kind, TRUE, audio, o2)>>
    IN IF o1.raises
       THEN [raised |-> TRUE, text |-> <<>>, confidence |-> 0, calls |-> first,
             src |-> "error"]
       ELSE IF retry_needed(transcribed_text(o1), o1.no_speech_prob)
       THEN IF o2.raises
            THEN [raised |-> TRUE, text |-> <<>>, confidence |-> 0, calls |-> both,
                  src |-> "error"]
            ELSE [raised |-> FALSE, text |-> transcribed_text(o2),
                  confidence |-> average_confidence(o2, retry_default),
                  calls |-> both, src |-> "retry"]
       ELSE [raised |-> FALSE, text |-> transcribed_text(o1),
             confidence |-> average_confidence(o1, default),
             calls |-> first, src |-> "decode"]

(***************************************************************************)
(* The transcription cache                                                 *)
(***************************************************************************)
_get_audio_hash(audio) == [md5 |-> audio]

\* slip: the lookup is skipped
cache_hit_never(cache, audio_hash) == FALSE
\* if audio_hash in self.transcription_cache, the same test on both paths
cache_hit(cache, audio_hash) == audio_hash \in DOMAIN cache

\* slip: the entry is stored in the old text-only format (read back with the default)
cache_store_text_only(cache, audio_hash, text, confidence) ==
    IF text # <<>> /\ Cardinality(DOMAIN cache) < cache_max_size
    THEN (audio_hash :> [text |-> text, confidence |-> partial_default_confidence]) @@ cache
    ELSE cache
\* slip: off by one in the capacity test
cache_store_one_more(cache, audio_hash, text, confidence) ==
    IF text # <<>> /\ Cardinality(DOMAIN cache) <= cache_max_size
    THEN (audio_hash :> [text |-> text, confidence |-> confidence]) @@ cache
    ELSE cache
cache_store(cache, audio_hash, text, confidence) ==
    IF text # <<>> /\ Cardinality(DOMAIN cache) < cache_max_size
    THEN (audio_hash :> [text |-> text, confidence |-> confidence]) @@ cache
    ELSE cache

(***************************************************************************)
(* The engine.  self is the record of the instance's mutable fields.       *)
(***************************************************************************)
Self ==
    [speech_frames |-> speech_frames, silence_count |-> silence_count,
     speech_triggered |-> speech_triggered, partial_text |-> partial_text,
     transcription_cache |-> transcription_cache]

\* slip: the reset block forgets partial_text
cleared_keeps_partial_text(self) ==
    [self EXCEPT !.speech_frames = <<>>, !.silence_count = 0,
                 !.speech_triggered = FALSE]
\* the four assignments of every "Reset state" block and of reset()
cleared(self) ==
    [self EXCEPT !.speech_frames = <<>>, !.silence_count = 0,
                 !.speech_triggered = FALSE, !.partial_text = <<>>]

\* the three "Reset state" blocks of _finalize_transcription
\* slip: the cache-hit exit returns without the reset block
final_cache_hit_exit_no_reset(self) == self
final_cache_hit_exit(self) == cleared(self)
\* slip: the decode exit leaves the engine Active
final_decode_exit_stays_active(self) == [cleared(self) EXCEPT !.speech_triggered = TRUE]
final_decode_exit(self) == cleared(self)
\* slip: the except branch returns without the reset block
final_error_exit_no_reset(self) == self
final_error_exit(self) == cleared(self)

\* slip: the silence counter survives a speech frame
speech_frame_applied_keeps_count(self, frame) ==
    [self EXCEPT !.speech_frames = Append(@, frame.pcm),
                 !.speech_triggered = TRUE]
\* slip: the except branch of a Partial request ends the utterance
partial_error_exit_resets(self) == cleared(self)
\* the except branch of _get_partial_transcription only logs and returns
partial_error_exit(self) == self

\* a speech frame: append, zero the silence counter, enter Active
speech_frame_applied(self, frame) ==
    [self EXCEPT !.speech_frames = Append(@, frame.pcm),
                 !.silence_count = 0,
                 !.speech_triggered = TRUE]

\* slip: the silence frame (pcm 0) is buffered with the speech
silence_frame_applied_buffered(self) ==
    [self EXCEPT !.silence_count = @ + 1, !.speech_frames = Append(@, 0)]
\* a silence frame while Active
silence_frame_applied(self) == [self EXCEPT !.silence_count = @ + 1]

\* slip: silence is counted in any state
silence_counted_always(self) == TRUE
\* if self.speech_triggered: silence is counted only while Active
silence_counted(self) == self.speech_triggered

\* slip: a threshold in place of the modulus
partial_due_threshold(self) == Len(self.speech_frames) >= partial_every
partial_due(self) == Len(self.speech_frames) % partial_every = 0

\* slip: strict comparison
end_of_speech_strict(self, max_silence) == self.silence_count > max_silence
end_of_speech(self, max_silence) == self.silence_count >= max_silence

\* what a frame step hands back: the instance afterwards, the returned event,
\* the backend calls it made, and which decode request it issued over which
\* audio and how that request was answered
Ret(self, event, made, request, src, audio) ==
    [self |-> self, result |-> event, calls |-> made, request |-> request,
     src |-> src, audio |-> audio]

NoEvent(self) == Ret(self, None, <<>>, "none", "none", <<>>)

\* slip: the except branch answers with the default confidence
error_event_default_confidence(kind) == Event(kind, <<>>, partial_default_confidence)
\* what the except branch of a decode request returns
error_event(kind) == Event(kind, <<>>, 0)

_get_partial_transcription(self, o1, o2) ==
    IF self.speech_frames = <<>>
    THEN Ret(self, Event("partial", <<>>, 0), <<>>, "partial", "empty", <<>>)
    ELSE LET audio == self.speech_frames
             audio_hash == _get_audio_hash(audio)
             cache == self.transcription_cache
         IN IF cache_hit(cache, audio_hash)
            THEN Ret([self EXCEPT !.partial_text = cache[audio_hash].text],
                     Event("partial", cache[audio_hash].text, cache[audio_hash].confidence),
                     <<>>, "partial", "cache", audio)
            ELSE LET r == run_inference("partial", audio, o1, o2)
                 IN IF r.raised
                    THEN Ret(partial_error_exit(self), error_event("partial"), r.calls,
                             "partial", r.src, audio)
                    ELSE Ret([self EXCEPT
                                !.transcription_cache =
                                    cache_store(cache, audio_hash, r.text, r.confidence),
                                !.partial_text = r.text],
                             Event("partial", r.text, r.confidence),
                             r.calls, "partial", r.src, audio)

_finalize_transcription(self, o1, o2) ==
    IF self.speech_frames = <<>>
    THEN Ret(self, Event("final", <<>>, 0), <<>>, "final", "empty", <<>>)
    ELSE LET audio == self.speech_frames
             audio_hash == _get_audio_hash(audio)
             cache == self.transcription_cache
         IN IF cache_hit(cache, audio_hash)
            THEN Ret(final_cache_hit_exit(self),
                     Event("final", cache[audio_hash].text, cache[audio_hash].confidence),
                     <<>>, "final", "cache", audio)
            ELSE LET r == run_inference("final", audio, o1, o2)
                 IN IF r.raised
                    THEN Ret(final_error_exit(self), error_event("final"), r.calls, "final",
                             r.src, audio)
                    ELSE Ret(final_decode_exit([self EXCEPT
                                !.transcription_cache =
                                    cache_store(cache, audio_hash, r.text, r.confidence)]),
                             Event("final", r.text, r.confidence),
                             r.calls, "final", r.src, audio)

NoInstance == [constructed |-> FALSE]
IdleThread ==
    [at |-> "idle", frame |-> [pcm |-> 0 - 1, is_speech |-> FALSE], rest |-> <<>>,
     done |-> 0]

\* the lock-protected part of _process_frame, on a frame the VAD has classified
_process_frame(self, max_silence, frame, o1, o2) ==
    IF frame.is_speech
    THEN LET s1 == speech_frame_applied(self, frame)
         IN IF partial_due(s1)
            THEN _get_partial_transcription(s1, o1, o2)
            ELSE NoEvent(s1)
    ELSE IF silence_counted(self)
         THEN LET s1 == silence_frame_applied(self)
              IN IF end_of_speech(s1, max_silence)
                 THEN _finalize_transcription(s1, o1, o2)
                 ELSE NoEvent(s1)
         ELSE NoEvent(self)

\* process_audio: one decode of the given samples, outside the state machine
AudioCall(outcome) ==
    [kind |-> "audio", retry |-> FALSE, audio |-> <<>>, outcome |-> outcome,
     language |-> "bg", beam_size |-> process_audio_beam_size,
     temperature |-> process_audio_temperature,
     no_speech_threshold |-> process_audio_no_speech_threshold,
     condition_on_previous_text |-> FALSE,
     word_timestamps |-> FALSE]

\* the result dict of process_audio
Transcript(text, confidence, language) ==
    [type |-> "transcript", text |-> text, confidence |-> confidence,
     language |-> language]

\* not (audio_data is None or len(audio_data) == 0)
audio_given(audio_data) == ~audio_data.is_none /\ Len(audio_data.samples) # 0

\* slip: the result reports the language the backend detected
process_audio_detected_language(given, o) ==
    IF ~given \/ o.raises
    THEN [text |-> <<>>, confidence |-> 0, language |-> "bg",
          calls |-> IF given THEN <<AudioCall(o)>> ELSE <<>>,
          src |-> IF given THEN "error" ELSE "empty"]
    ELSE [text |-> transcribed_text(o),
          confidence |-> average_confidence(o, process_audio_default_confidence),
          language |-> o.language, calls |-> <<AudioCall(o)>>, src |-> "decode"]
\* given: audio_data is neither None nor of length 0
process_audio(given, o) ==
    IF ~given
    THEN [text |-> <<>>, confidence |-> 0, language |-> "bg", calls |-> <<>>,
          src |-> "empty"]
    ELSE IF o.raises
    THEN [text |-> <<>>, confidence |-> 0, language |-> "bg",
          calls |-> <<AudioCall(o)>>, src |-> "error"]
    ELSE [text |-> transcribed_text(o),
          confidence |-> average_confidence(o, process_audio_default_confidence),
          language |-> "bg", calls |-> <<AudioCall(o)>>, src |-> "decode"]

\* slip: reset() empties the cache as well
reset_clears_cache(self) == [cleared(self) EXCEPT !.transcription_cache = <<>>]
\* slip: reset() drops the buffer and leaves the engine Active
reset_keeps_triggered(self) == [self EXCEPT !.speech_frames = <<>>, !.silence_count = 0]
reset(self) == cleared(self)

\* self.max_silence_frames = int(self.vad_tail_ms / self.frame_duration)
silence_frames_for(tail_ms) == tail_ms \div frame_duration

(***************************************************************************)
(* Frames and chunks fed by the caller                                     *)
(***************************************************************************)
Frame(pcm, is_speech) == [pcm |-> pcm, is_speech |-> is_speech]

Silence == Frame(0, FALSE)
Speech == Frame(1, TRUE)
OtherSpeech == Frame(2, TRUE)
NoFrame == Frame(0 - 1, FALSE)

PlainFrames == {Silence, Speech}

\* the first frame of an utterance is of either content, the later ones of one;
\* an utterance of the other content is a short one
FirstFrames == PlainFrames \cup (IF speech_frames = <<>> THEN {OtherSpeech} ELSE {})

RECURSIVE PlainRuns(_)
PlainRuns(n) ==
    IF n = 0 THEN {<<>>}
    ELSE PlainRuns(n - 1) \cup
         {<<f>> \o c : f \in PlainFrames, c \in {d \in PlainRuns(n - 1) : Len(d) = n - 1}}

RECURSIVE count_speech(_)
count_speech(chunk) ==
    IF chunk = <<>> THEN 0
    ELSE (IF Head(chunk).is_speech THEN 1 ELSE 0) + count_speech(Tail(chunk))

\* the non-empty chunks of at most maxlen frames the caller may submit in the
\* current state, within the bounds
Chunks(maxlen) ==
    { c \in {<<f>> \o d : f \in FirstFrames, d \in PlainRuns(maxlen - 1)} :
        /\ Len(speech_frames) + count_speech(c) <= MaxFrames
        /\ (count_speech(c) > 0 /\ ~speech_triggered) => utterances < MaxUtterances
        /\ (c[1] = OtherSpeech \/ (speech_frames # <<>> /\ Head(speech_frames) = OtherSpeech.pcm))
              => Len(speech_frames) + count_speech(c) <= MaxShort
        /\ (Len(c) - count_speech(c) > 0) =>
              /\ (IF scen.valid THEN scen.m ELSE 0) + (Len(c) - count_speech(c))
                     <= MaxSilenceRun
              /\ LET n == Len(speech_frames) + count_speech(c)
                 IN n <= MaxShort \/ n >= partial_every }

(***************************************************************************)
(* The bytes of a chunk: np.frombuffer, the split into frames, the padding *)
(***************************************************************************)
\* np.frombuffer(audio_data, dtype=np.int16) raises ValueError when the byte
\* count is not a multiple of the sample width
frombuffer_raises(nbytes) == nbytes % sample_bytes # 0

sample_count(nbytes) == nbytes \div sample_bytes

\* the lengths of audio_array[i : i + frame_size] for i in range(0, len, frame_size)
RECURSIVE frame_lengths(_)
frame_lengths(samples) ==
    IF samples = 0 THEN <<>>
    ELSE IF samples >= frame_size
    THEN <<frame_size>> \o frame_lengths(samples - frame_size)
    ELSE <<samples>>

\* np.pad(frame, (0, frame_size - len(frame)), "constant") on a short frame
np_pad(n) == IF n < frame_size THEN n + (frame_size - n) ELSE n

\* the lengths of the frames handed to _process_frame
padded_lengths(nbytes) ==
    [i \in 1..Len(frame_lengths(sample_count(nbytes))) |->
        np_pad(frame_lengths(sample_count(nbytes))[i])]

\* slip: the handler names the one exception class of the conversion
except_ValueError(exc) == exc = "ValueError"
\* except Exception: every exception raised in the body is caught
except_Exception(exc) == exc \in {"ValueError", "VadError"}

NoRecv == [nbytes |-> 0, error |-> "none", escaped |-> FALSE, lengths |-> <<>>,
           applied |-> 0]

\* a chunk of nbytes whose frames are being applied, the first of them done
Received(nbytes) ==
    [nbytes |-> nbytes, error |-> "none", escaped |-> FALSE,
     lengths |-> padded_lengths(nbytes),
     applied |-> IF nbytes = 0 THEN 0 ELSE 1]

\* a chunk of nbytes in whose processing exc was raised after applied frames
Raised(nbytes, exc, lengths, applied) ==
    [nbytes |-> nbytes, error |-> exc, escaped |-> ~except_Exception(exc),
     lengths |-> lengths, applied |-> applied]

(***************************************************************************)
(* Observers: they read only the frames fed and the events returned        *)
(***************************************************************************)
IsFinal(e) == e.type = "final"
IsPartial(e) == e.type = "partial"

NoScen == [valid |-> FALSE, n |-> 0, m |-> 0, finals |-> 0, partials |-> 0]

\* a run of n speech frames then m silence frames that began with the engine Idle
scen_after(was_idle, frame, event) ==
    LET f == IF IsFinal(event) THEN 1 ELSE 0
        p == IF IsPartial(event) THEN 1 ELSE 0
    IN IF frame.is_speech
       THEN IF was_idle
            THEN [valid |-> TRUE, n |-> 1, m |-> 0, finals |-> f, partials |-> p]
            ELSE IF scen.valid /\ scen.m = 0
            THEN [scen EXCEPT !.n = @ + 1, !.finals = @ + f, !.partials = @ + p]
            ELSE NoScen
       ELSE IF scen.valid
            THEN [scen EXCEPT !.m = @ + 1, !.finals = @ + f, !.partials = @ + p]
            ELSE NoScen

NoObs == [in_utterance |-> FALSE, trailing_silence |-> 0, frames |-> <<>>]

\* The utterance in progress, as the caller sees it: it begins at a speech
\* frame and ends at its Final event (or at reset); frames are its speech
\* frames in arrival order, trailing_silence the silence frames fed since the
\* last of them.
obs_after(frame, event) ==
    IF IsFinal(event) THEN NoObs
    ELSE IF frame.is_speech
    THEN [in_utterance |-> TRUE, trailing_silence |-> 0,
          frames |-> Append(obs.frames, frame.pcm)]
    ELSE IF obs.in_utterance THEN [obs EXCEPT !.trailing_silence = @ + 1]
    ELSE obs

\* the first decode of each buffer that gave text while the cache had room
decoded_after(r, cache_before) ==
    IF /\ r.calls # <<>>
       /\ r.result.text # <<>>
       /\ Cardinality(DOMAIN cache_before) < cache_max_size
       /\ r.audio \notin DOMAIN decoded
    THEN (r.audio :> [text |-> r.result.text, confidence |-> r.result.confidence])
         @@ decoded
    ELSE decoded

(***************************************************************************)
(* Actions                                                                 *)
(***************************************************************************)
AnyOutcome == CHOOSE o \in Outcomes : o.raises

\* the outcomes worth distinguishing for the primary call and for the retry
PrimaryOutcomes(frame) ==
    IF _process_frame(Self, max_silence_frames, frame, AnyOutcome, AnyOutcome).calls # <<>>
    THEN Outcomes ELSE {AnyOutcome}

RetryOutcomes(frame, o1) ==
    IF Len(_process_frame(Self, max_silence_frames, frame, o1, AnyOutcome).calls) > 1
    THEN {o \in Outcomes : ~o.one_shot} ELSE {AnyOutcome}

\* slip: the loop goes on after an event
frames_left_after_event(event, rest) == rest
\* if result: return result -- the frames after the event are left unprocessed
frames_left(event, rest) == IF event.type # "none" THEN <<>> ELSE rest

\* one iteration of the loop of process_audio_chunk: the frame is classified,
\* then applied under the lock; the loop ends at the first event
FrameApplied(frame, rest, o1, o2) ==
    LET r == _process_frame(Self, max_silence_frames, frame, o1, o2)
        was_idle == ~speech_triggered /\ speech_frames = <<>>
    IN /\ speech_frames' = r.self.speech_frames
       /\ silence_count' = r.self.silence_count
       /\ speech_triggered' = r.self.speech_triggered
       /\ partial_text' = r.self.partial_text
       /\ transcription_cache' = r.self.transcription_cache
       /\ result' = r.result
       /\ calls' = r.calls
       /\ step' = [op |-> "frame", frame |-> frame, request |-> r.request,
                   src |-> r.src, audio |-> r.audio]
       /\ pending' = frames_left(r.result, rest)
       /\ utterances' = IF frame.is_speech /\ ~speech_triggered
                        THEN utterances + 1 ELSE utterances
       /\ scen' = scen_after(was_idle, frame, r.result)
       /\ obs' = obs_after(frame, r.result)
       /\ decoded' = decoded_after(r, transcription_cache)
       /\ UNCHANGED <<vad_tail_ms, max_silence_frames>>

\* the same, made by the one caller of the one instance
FrameStep(frame, rest, o1, o2) ==
    /\ FrameApplied(frame, rest, o1, o2)
    /\ UNCHANGED apart

\* process_audio_chunk on a chunk of one frame
ProcessAudioChunk ==
    /\ pending = <<>>
    /\ \E chunk \in Chunks(1) :
         \E o1 \in PrimaryOutcomes(chunk[1]) :
           \E o2 \in RetryOutcomes(chunk[1], o1) :
             FrameStep(chunk[1], Tail(chunk), o1, o2)
    /\ recv' = Received(frame_bytes)

\* process_audio_chunk on a chunk of several frames: its first frame
ProcessLongChunk ==
    /\ pending = <<>>
    /\ \E chunk \in Chunks(MaxChunkFrames) \ Chunks(1) :
         \E o1 \in PrimaryOutcomes(chunk[1]) :
           \E o2 \in RetryOutcomes(chunk[1], o1) :
             /\ FrameStep(chunk[1], Tail(chunk), o1, o2)
             /\ recv' = Received(Len(chunk) * frame_bytes)

\* process_audio_chunk, the following frames of the chunk
NextFrame ==
    /\ pending # <<>>
    /\ \E o1 \in PrimaryOutcomes(pending[1]) :
         \E o2 \in RetryOutcomes(pending[1], o1) :
           FrameStep(pending[1], Tail(pending), o1, o2)
    /\ recv' = [recv EXCEPT !.applied = @ + 1]

\* process_audio_chunk on no bytes: the loop body never runs
ProcessEmptyChunk ==
    /\ pending = <<>>
    /\ result' = None
    /\ calls' = <<>>
    /\ step' = [op |-> "empty", frame |-> NoFrame, request |-> "none",
                src |-> "none", audio |-> <<>>]
    /\ recv' = Received(0)
    /\ UNCHANGED <<engine, pending, utterances, scen, obs, decoded, apart>>

\* the body of reset(), under the lock
ResetApplied ==
    /\ pending = <<>>
    /\ LET s == reset(Self)
       IN /\ speech_frames' = s.speech_frames
          /\ silence_count' = s.silence_count
          /\ speech_triggered' = s.speech_triggered
          /\ partial_text' = s.partial_text
          /\ transcription_cache' = s.transcription_cache
    /\ result' = None
    /\ calls' = <<>>
    /\ step' = [op |-> "reset", frame |-> NoFrame, request |-> "none",
                src |-> "none", audio |-> <<>>]
    /\ scen' = NoScen
    /\ obs' = NoObs
    /\ recv' = NoRecv
    /\ UNCHANGED <<vad_tail_ms, max_silence_frames, pending, utterances, decoded>>

\* reset() by the one caller of the one instance
Reset ==
    /\ ResetApplied
    /\ UNCHANGED apart

\* byte counts of the chunks that are not a whole number of frames
ByteLengths ==
    {1, sample_bytes, frame_bytes - 1, frame_bytes + 1, frame_bytes + sample_bytes}

\* what the except clause of process_audio_chunk leaves: None is returned,
\* no frame of the rest of the chunk is processed
ChunkError(r) ==
    /\ result' = None
    /\ calls' = <<>>
    /\ pending' = <<>>
    /\ step' = [op |-> "chunk_error", frame |-> NoFrame, request |-> "none",
                src |-> "none", audio |-> <<>>]
    /\ recv' = r
    /\ UNCHANGED <<engine, utterances, scen, obs, decoded, apart>>

\* process_audio_chunk on an odd number of bytes: np.frombuffer raises
ProcessOddBytes ==
    /\ pending = <<>>
    /\ \E nbytes \in ByteLengths :
         /\ frombuffer_raises(nbytes)
         /\ ChunkError(Raised(nbytes, "ValueError", <<>>, 0))

\* process_audio_chunk on samples that do not fill the last frame: it is
\* padded and processed as the others are
ProcessPaddedBytes ==
    /\ pending = <<>>
    /\ \E nbytes \in ByteLengths :
         /\ ~frombuffer_raises(nbytes)
         /\ \E chunk \in Chunks(Len(padded_lengths(nbytes))) :
              /\ Len(chunk) = Len(padded_lengths(nbytes))
              /\ \E o1 \in PrimaryOutcomes(chunk[1]) :
                   \E o2 \in RetryOutcomes(chunk[1], o1) :
                     FrameStep(chunk[1], Tail(chunk), o1, o2)
         /\ recv' = Received(nbytes)

\* self.vad.is_speech raises on the first frame of a chunk
VadRaisesFirst ==
    /\ pending = <<>>
    /\ \E nbytes \in ByteLengths \cup {frame_bytes} :
         /\ ~frombuffer_raises(nbytes)
         /\ ChunkError(Raised(nbytes, "VadError", padded_lengths(nbytes), 0))

\* self.vad.is_speech raises on a following frame of the chunk
VadRaisesNext ==
    /\ pending # <<>>
    /\ ChunkError(Raised(recv.nbytes, "VadError", recv.lengths, recv.applied))

\* the fields __init__ gives an instance of its own
NewInstance(tail_ms) ==
    [constructed |-> TRUE, max_silence_frames |-> silence_frames_for(tail_ms),
     speech_frames |-> <<>>, silence_count |-> 0, speech_triggered |-> FALSE,
     partial_text |-> <<>>, transcription_cache |-> <<>>]

\* slip: the cache is one dict shared by the instances
shares_cache(self, other_after) ==
    [self EXCEPT !.transcription_cache = other_after.transcription_cache]
\* what a call on another instance does to this one: its fields are
\* attributes of the other self
untouched_by_other(self, other_after) == self

\* a second instance is constructed
OtherConstruct ==
    /\ other = NoInstance
    /\ \E tail_ms \in VadTailChoices : other' = NewInstance(tail_ms)
    /\ UNCHANGED <<engine, pending, result, step, calls, utterances, scen, obs,
                   decoded, recv, lock, pc, conn, backend, ws>>

\* what a call on the second instance leaves of this one
OtherCalled(other_after) ==
    LET s == untouched_by_other(Self, other_after)
    IN /\ other' = other_after
       /\ speech_frames' = s.speech_frames
       /\ silence_count' = s.silence_count
       /\ speech_triggered' = s.speech_triggered
       /\ partial_text' = s.partial_text
       /\ transcription_cache' = s.transcription_cache
       /\ UNCHANGED <<vad_tail_ms, max_silence_frames, pending, result, step, calls,
                      utterances, scen, obs, decoded, recv, lock, pc, conn, backend, ws>>

\* the backend of the second instance: its segments are a list, and a retry
\* of its own fails
OtherOutcomes == {o \in Outcomes : ~o.one_shot}

\* process_audio_chunk of the second instance, on a chunk of one frame
OtherProcessAudioChunk ==
    /\ other # NoInstance
    /\ \E frame \in PlainFrames :
         /\ Len(other.speech_frames) + count_speech(<<frame>>) <= MaxOtherFrames
         /\ \E o1 \in OtherOutcomes :
              OtherCalled(_process_frame(other, other.max_silence_frames,
                                         frame, o1, AnyOutcome).self)

\* reset() of the second instance
OtherReset ==
    /\ other # NoInstance
    /\ OtherCalled(reset(other))

\* slip: the lock is taken without waiting for its holder
lock_always_available(l) == TRUE
\* threading.Lock: acquired by one thread at a time
lock_available(l) == l = "free"

\* where a thread holds the lock
LockedAt == {"locked", "reset_locked"}

\* the loop of process_audio_chunk in a thread after a frame step: it returns
\* at an event or at the end of the chunk, and otherwise goes on to the next
\* frame, which is classified before the lock is asked for again
next_in_chunk(p, event) ==
    IF frames_left(event, p.rest) = <<>> THEN IdleThread
    ELSE [at |-> "classified", frame |-> Head(p.rest), rest |-> Tail(p.rest),
          done |-> p.done + 1]

\* process_audio_chunk on a chunk of two frames, entered by a thread: the
\* first frame is cut off and classified by the VAD
ClassifyFirst(t) ==
    /\ pc[t].at = "idle"
    /\ \E f1, f2 \in PlainFrames :
         pc' = [pc EXCEPT ![t] = [at |-> "classified", frame |-> f1,
                                  rest |-> <<f2>>, done |-> 0]]
    /\ UNCHANGED <<engine, pending, result, step, calls, utterances, scen, obs,
                   decoded, recv, other, lock, conn, backend, ws>>

\* slip: the except branch of a decode returns with the lock held
lock_after_step_error_held(t, src) == IF src = "error" THEN t ELSE "free"
\* with self.lock: the lock is released however the block is left
lock_after_step(t, src) == "free"

\* the other threads that have classified a frame of the given kind and have
\* not applied it yet
in_flight(t, is_speech) ==
    Cardinality({u \in Threads \ {t} :
                    pc[u].at \in {"classified", "locked"} /\ pc[u].frame.is_speech = is_speech})

\* _process_frame before the lock, for a frame that stays within the bounds
\* whatever the frames in flight do before it is applied
ClassifyWithin(t) ==
    /\ pc[t].at = "idle"
    /\ \E frame \in PlainFrames :
         /\ IF frame.is_speech
            THEN /\ Len(speech_frames) + in_flight(t, TRUE) + 1 <= MaxThreadFrames
                 /\ utterances + in_flight(t, TRUE) + 1 <= MaxUtterances
            ELSE /\ speech_triggered \/ scen.valid
                 /\ (IF scen.valid THEN scen.m ELSE 0) + in_flight(t, FALSE) + 1
                        <= MaxSilenceRun
         /\ pc' = [pc EXCEPT ![t] = [at |-> "classified", frame |-> frame,
                                     rest |-> <<>>, done |-> 0]]
    /\ UNCHANGED <<engine, pending, result, step, calls, utterances, scen, obs,
                   decoded, recv, other, lock, conn, backend, ws>>

\* an exception leaves the block of with self.lock uncaught: at the onset of
\* an utterance print("Speech detected") raises (standard output is closed)
\* after the frame was appended and the flag set; the with statement releases
\* the lock and process_audio_chunk catches the exception and returns None
ApplyRaised(t) ==
    /\ pc[t].at = "locked"
    /\ pc[t].frame.is_speech /\ ~speech_triggered
    /\ pending = <<>>
    /\ LET s1 == speech_frame_applied(Self, pc[t].frame)
       IN /\ speech_frames' = s1.speech_frames
          /\ silence_count' = s1.silence_count
          /\ speech_triggered' = s1.speech_triggered
          /\ partial_text' = s1.partial_text
          /\ transcription_cache' = s1.transcription_cache
    /\ result' = None
    /\ calls' = <<>>
    /\ step' = [op |-> "frame", frame |-> pc[t].frame, request |-> "none",
                src |-> "raised", audio |-> <<>>]
    /\ utterances' = utterances + 1
    /\ scen' = scen_after(~speech_triggered /\ speech_frames = <<>>, pc[t].frame, None)
    /\ obs' = obs_after(pc[t].frame, None)
    /\ recv' = Received(frame_bytes)
    /\ lock' = lock_after_step(t, "raised")
    /\ pc' = [pc EXCEPT ![t] = IdleThread]
    /\ UNCHANGED <<vad_tail_ms, max_silence_frames, pending, decoded, other, conn,
                   backend, ws>>

\* reset() is called by a thread while there is something to reset
ResetEnter(t) ==
    /\ pc[t].at = "idle"
    /\ speech_frames # <<>>
    /\ pc' = [pc EXCEPT ![t].at = "reset_called"]
    /\ UNCHANGED <<engine, pending, result, step, calls, utterances, scen, obs,
                   decoded, recv, other, lock, conn, backend, ws>>

\* with self.lock, entered in reset() by the thread that called it
ResetAcquireCalled(t) ==
    /\ pc[t].at = "reset_called"
    /\ lock_available(lock)
    /\ lock' = t
    /\ pc' = [pc EXCEPT ![t].at = "reset_locked"]
    /\ UNCHANGED <<engine, pending, result, step, calls, utterances, scen, obs,
                   decoded, recv, other, conn, backend, ws>>

\* _process_frame before the lock: the frame is converted and classified by
\* the VAD
Classify(t) ==
    /\ pc[t].at = "idle"
    /\ \E frame \in PlainFrames :
         pc' = [pc EXCEPT ![t] = [at |-> "classified", frame |-> frame,
                                  rest |-> <<>>, done |-> 0]]
    /\ UNCHANGED <<engine, pending, result, step, calls, utterances, scen, obs,
                   decoded, recv, other, lock, conn, backend, ws>>

\* with self.lock, entered in _process_frame
Acquire(t) ==
    /\ pc[t].at = "classified"
    /\ lock_available(lock)
    /\ Len(speech_frames) + count_speech(<<pc[t].frame>>) <= MaxThreadFrames
    /\ (pc[t].frame.is_speech /\ ~speech_triggered) => utterances < MaxUtterances
    /\ ~pc[t].frame.is_speech => (IF scen.valid THEN scen.m ELSE 0) < MaxSilenceRun
    /\ lock' = t
    /\ pc' = [pc EXCEPT ![t].at = "locked"]
    /\ UNCHANGED <<engine, pending, result, step, calls, utterances, scen, obs,
                   decoded, recv, other, conn, backend, ws>>

\* the body of with self.lock in _process_frame, the transcription it calls
\* included; the lock is released as the block is left
Apply(t) ==
    /\ pc[t].at = "locked"
    /\ pending = <<>>
    /\ \E o1 \in PrimaryOutcomes(pc[t].frame) :
         \E o2 \in RetryOutcomes(pc[t].frame, o1) :
           FrameApplied(pc[t].frame, <<>>, o1, o2)
    /\ recv' = Received(frame_bytes)
    /\ lock' = lock_after_step(t, step'.src)
    /\ pc' = [pc EXCEPT ![t] = next_in_chunk(pc[t], result')]
    /\ UNCHANGED <<other, conn, backend, ws>>

\* with self.lock, entered in reset()
ResetAcquire(t) ==
    /\ pc[t].at = "idle"
    /\ lock_available(lock)
    /\ speech_frames # <<>>
    /\ lock' = t
    /\ pc' = [pc EXCEPT ![t].at = "reset_locked"]
    /\ UNCHANGED <<engine, pending, result, step, calls, utterances, scen, obs,
                   decoded, recv, other, conn, backend, ws>>

\* the body of with self.lock in reset(); the lock is released after it
ResetRelease(t) ==
    /\ pc[t].at = "reset_locked"
    /\ ResetApplied
    /\ lock' = "free"
    /\ pc' = [pc EXCEPT ![t] = IdleThread]
    /\ UNCHANGED <<other, conn, backend, ws>>

\* no /ws/asr connection has been accepted
NoConn == [open |-> {}, last |-> "none"]

\* asr_processor, the module global of app.py constructed once in lifespan:
\* the instance every connection's handler calls
asr_processor == Self

\* the frames a connection sends: each client has speech of its own
session_frames(c) == IF c = "c1" THEN {Silence, Speech} ELSE {Silence, OtherSpeech}

\* the connection a buffered frame was received on
received_on(pcm) == IF pcm = Speech.pcm THEN "c1" ELSE "c2"

\* slip: a session warms the backend up again
session_backend_warmup(b) == [b EXCEPT !.warmups = @ + 1, !.invoked = @ + 1]
\* what a new session does to the backend: the handler uses the engine that
\* lifespan constructed, as it is
session_backend(b) == b

\* websocket.accept() of websocket_asr_endpoint; without an engine the
\* connection is closed at once
Accept(c) ==
    /\ backend.model = "loaded"
    /\ c \notin conn.open
    /\ conn' = [conn EXCEPT !.open = @ \cup {c}]
    /\ backend' = session_backend(backend)
    /\ UNCHANGED <<engine, pending, result, step, calls, utterances, scen, obs,
                   decoded, recv, other, lock, pc, ws>>

\* one iteration of the receive loop of websocket_asr_endpoint on connection
\* c: data = receive_bytes(), result = asr_processor.process_audio_chunk(data),
\* and a result is sent on c
Receive(c) ==
    /\ c \in conn.open
    /\ pending = <<>>
    /\ \E frame \in session_frames(c) :
         LET n == Len(asr_processor.speech_frames) + count_speech(<<frame>>)
         IN /\ n <= MaxFrames
            /\ (frame.is_speech /\ ~speech_triggered) => utterances < MaxUtterances
            /\ (frame = OtherSpeech \/ \E i \in DOMAIN speech_frames :
                                         speech_frames[i] = OtherSpeech.pcm)
                  => n <= MaxShort + 1
            /\ ~frame.is_speech =>
                  /\ (IF scen.valid THEN scen.m ELSE 0) < MaxSilenceRun
                  /\ n <= MaxShort + 1 \/ n >= partial_every
            /\ \E o1 \in PrimaryOutcomes(frame) :
                 \E o2 \in RetryOutcomes(frame, o1) :
                   FrameApplied(frame, <<>>, o1, o2)
    /\ recv' = Received(frame_bytes)
    /\ conn' = [conn EXCEPT !.last = c]
    /\ UNCHANGED <<other, lock, pc, backend, ws>>

\* WebSocketDisconnect: the handler returns, the engine is left as it is
Disconnect(c) ==
    /\ c \in conn.open
    /\ conn' = [conn EXCEPT !.open = @ \ {c}]
    /\ UNCHANGED <<engine, pending, result, step, calls, utterances, scen, obs,
                   decoded, recv, other, lock, pc, backend, ws>>

\* the audio_data process_audio is called with: None, an array of no samples,
\* an array of samples
AudioInputs ==
    { [is_none |-> TRUE, samples |-> <<>>],
      [is_none |-> FALSE, samples |-> <<>>],
      [is_none |-> FALSE, samples |-> <<Speech.pcm>>] }

\* process_audio(audio_data): it takes no lock and touches no field; it is
\* called between utterances
ProcessAudioApplied ==
    /\ pending = <<>>
    /\ ~speech_triggered
    /\ \E audio_data \in AudioInputs :
         \E o \in (IF audio_given(audio_data) THEN Outcomes ELSE {AnyOutcome}) :
           LET r == process_audio(audio_given(audio_data), o)
           IN /\ result' = Transcript(r.text, r.confidence, r.language)
              /\ calls' = r.calls
              /\ step' = [op |-> "audio", frame |-> NoFrame, request |-> "audio",
                          src |-> r.src, audio |-> <<>>, input |-> audio_data]
    /\ recv' = NoRecv
    /\ UNCHANGED <<engine, pending, utterances, scen, obs, decoded>>

\* process_audio by the one caller of the one instance
ProcessAudio ==
    /\ ProcessAudioApplied
    /\ UNCHANGED apart

\* where the handler of every connection is before the connection is accepted
NoLoop ==
    [running |-> "none",
     at |-> [c \in Connections |-> "closed"],
     inbox |-> [c \in Connections |-> <<>>],
     arrived |-> [c \in Connections |-> 0],
     read |-> [c \in Connections |-> 0],
     data |-> [c \in Connections |-> NoFrame],
     results |-> [c \in Connections |-> <<>>],
     sent |-> [c \in Connections |-> <<>>],
     code |-> [c \in Connections |-> 0],
     telemetry |-> FALSE,
     active |-> 0,
     inc |-> [c \in Connections |-> 0],
     dec |-> [c \in Connections |-> 0]]

\* telemetry_context.update_connections(delta) under `if telemetry_context`,
\* with the calls made for connection c counted
update_connections(w, c, delta) ==
    IF w.telemetry
    THEN [w EXCEPT !.active = @ + delta,
                   !.inc[c] = IF delta > 0 THEN @ + 1 ELSE @,
                   !.dec[c] = IF delta < 0 THEN @ + 1 ELSE @]
    ELSE w

\* the handler of connection c has returned: its locals and the connection
\* with what it carried are gone
gone(w, c) ==
    [w EXCEPT !.at[c] = "done", !.inbox[c] = <<>>, !.arrived[c] = 0,
              !.read[c] = 0, !.results[c] = <<>>, !.sent[c] = <<>>,
              !.data[c] = NoFrame]

\* slip: the handler logs the error and goes on with the next chunk
closed_on_error_resumes(w, c) == [w EXCEPT !.at[c] = "receive"]
\* except Exception: await websocket.close(code=1000, reason=str(e))
closed_on_error(w, c) == [gone(w, c) EXCEPT !.code[c] = close_code]

\* slip: the not-initialised exit returns without the decrement
uninitialised_exit_uncounted(w, c) == [gone(w, c) EXCEPT !.code[c] = close_code]
\* if not asr_processor: close with code 1000, decrement, return
uninitialised_exit(w, c) ==
    update_connections([gone(w, c) EXCEPT !.code[c] = close_code], c, 0 - 1)

\* where a handler is after an exception reached its except Exception clause
ExceptAt == {"except_asr", "except_coach"}

\* a JSON message of the handler, k the chunk whose result caused it
Message(type, k, text, confidence) ==
    [type |-> type, chunk |-> k, text |-> text, confidence |-> confidence]

\* slip: the handler reads the next chunk while the coach reply is pending
awaiting_receive_or_coach(position) == position \in {"receive", "coach"}
\* the handler is suspended in await websocket.receive_bytes()
awaiting_receive(position) == position = "receive"

\* the event loop runs one handler at a time, from one await to the next
loop_free(w) == w.running = "none"

\* slip: the coach pipeline runs for every event
after_event_always_coach(type) == "coach"
\* where the handler goes after sending the event: the coach pipeline for a
\* Final, the next receive_bytes otherwise
after_event(type) == IF type = "final" THEN "coach" ELSE "receive"

\* the call of process_audio_chunk that connection c's handler is in reaches
\* the backend: the frame it was given triggers a decode
decode_in_progress(c) ==
    /\ ws.at[c] = "process"
    /\ _process_frame(Self, max_silence_frames, ws.data[c], AnyOutcome, AnyOutcome).calls # <<>>

\* websocket.accept() as a step of the event loop
LoopAccept(c) ==
    /\ backend.model = "loaded"
    /\ loop_free(ws)
    /\ ws.at[c] = "closed"
    /\ conn' = [conn EXCEPT !.open = @ \cup {c}]
    /\ ws' = update_connections([ws EXCEPT !.at[c] = "receive"], c, 1)
    /\ UNCHANGED <<engine, pending, result, step, calls, utterances, scen, obs,
                   decoded, recv, other, lock, pc, backend>>

\* the client of connection c sends a chunk of one frame; it waits in the
\* connection until the handler reads it
ClientSend(c) ==
    /\ ws.at[c] \notin {"closed", "done"}
    /\ ws.arrived[c] < MaxSessionChunks
    /\ \E frame \in PlainFrames :
         ws' = [ws EXCEPT !.inbox[c] = Append(@, frame), !.arrived[c] = @ + 1]
    /\ UNCHANGED <<engine, pending, result, step, calls, utterances, scen, obs,
                   decoded, recv, other, lock, pc, conn, backend>>

\* data = await websocket.receive_bytes() returns, and the handler enters
\* asr_processor.process_audio_chunk(data), a plain call on the event loop
ReadChunk(c) ==
    /\ loop_free(ws)
    /\ awaiting_receive(ws.at[c])
    /\ ws.inbox[c] # <<>>
    /\ ws' = [ws EXCEPT !.running = c, !.at[c] = "process",
                        !.data[c] = Head(ws.inbox[c]), !.inbox[c] = Tail(@),
                        !.read[c] = @ + 1]
    /\ UNCHANGED <<engine, pending, result, step, calls, utterances, scen, obs,
                   decoded, recv, other, lock, pc, conn, backend>>

\* the backend under the handlers: a decode fails, gives no text or gives
\* text, and a retry fails
LoopOutcomes == {AnyOutcome} \cup {o \in OtherOutcomes : o.raises \/ o.segments # <<>>}

\* process_audio_chunk(data) returns: the frame was applied, with the decode
\* it triggered; the handler goes on to send, or back to receive_bytes
ProcessChunk(c) ==
    /\ ws.running = c /\ ws.at[c] = "process"
    /\ pending = <<>>
    /\ \E o1 \in PrimaryOutcomes(ws.data[c]) \cap LoopOutcomes :
         FrameApplied(ws.data[c], <<>>, o1, AnyOutcome)
    /\ recv' = Received(frame_bytes)
    /\ conn' = [conn EXCEPT !.last = c]
    /\ ws' = [ws EXCEPT !.running = "none",
                        !.results[c] = Append(@, result'),
                        !.data[c] = NoFrame,
                        !.at[c] = IF result'.type = "none" THEN "receive"
                                  ELSE "send_event"]
    /\ UNCHANGED <<other, lock, pc, backend>>

\* await websocket.send_json of the partial or final message
SendEvent(c) ==
    /\ loop_free(ws)
    /\ ws.at[c] = "send_event"
    /\ LET k == Len(ws.results[c])
           e == ws.results[c][k]
       IN ws' = [ws EXCEPT !.sent[c] = Append(@, Message(e.type, k, e.text, e.confidence)),
                           !.at[c] = after_event(e.type)]
    /\ UNCHANGED <<engine, pending, result, step, calls, utterances, scen, obs,
                   decoded, recv, other, lock, pc, conn, backend>>

\* coach_response = await process_user_input(result["text"]) returns
CoachReplied(c) ==
    /\ loop_free(ws)
    /\ ws.at[c] = "coach"
    /\ ws' = [ws EXCEPT !.at[c] = "send_coach"]
    /\ UNCHANGED <<engine, pending, result, step, calls, utterances, scen, obs,
                   decoded, recv, other, lock, pc, conn, backend>>

\* await websocket.send_json of the coach message
SendCoach(c) ==
    /\ loop_free(ws)
    /\ ws.at[c] = "send_coach"
    /\ ws' = [ws EXCEPT !.sent[c] = Append(@, Message("coach", Len(ws.results[c]), <<>>, 0)),
                        !.at[c] = "send_performance"]
    /\ UNCHANGED <<engine, pending, result, step, calls, utterances, scen, obs,
                   decoded, recv, other, lock, pc, conn, backend>>

\* await websocket.send_json of the performance message (metrics is never empty)
SendPerformance(c) ==
    /\ loop_free(ws)
    /\ ws.at[c] = "send_performance"
    /\ ws' = [ws EXCEPT !.sent[c] = Append(@, Message("performance", Len(ws.results[c]), <<>>, 0)),
                        !.at[c] = "receive"]
    /\ UNCHANGED <<engine, pending, result, step, calls, utterances, scen, obs,
                   decoded, recv, other, lock, pc, conn, backend>>

\* the client goes away: WebSocketDisconnect is raised in the receive or the
\* send the handler is suspended in, and the handler returns; its locals and
\* the connection with what it carried are gone, the engine stays as it is
LoopDisconnect(c) ==
    /\ loop_free(ws)
    /\ ws.at[c] \in {"receive", "send_event", "send_coach", "send_performance"}
    /\ conn' = [conn EXCEPT !.open = @ \ {c}]
    /\ ws' = update_connections(gone(ws, c), c, 0 - 1)
    /\ UNCHANGED <<engine, pending, result, step, calls, utterances, scen, obs,
                   decoded, recv, other, lock, pc, backend>>

\* websocket.accept() while asr_processor is None: the connection is counted
\* and the handler goes to close it
AcceptUninitialised(c) ==
    /\ backend.model # "loaded"
    /\ loop_free(ws)
    /\ ws.at[c] = "closed"
    /\ conn' = [conn EXCEPT !.open = @ \cup {c}]
    /\ ws' = update_connections([ws EXCEPT !.at[c] = "close_uninitialised"], c, 1)
    /\ UNCHANGED <<engine, pending, result, step, calls, utterances, scen, obs,
                   decoded, recv, other, lock, pc, backend>>

\* await websocket.close(code=1000, reason="ASR not initialized"), the
\* decrement and the return
CloseUninitialised(c) ==
    /\ loop_free(ws)
    /\ ws.at[c] = "close_uninitialised"
    /\ conn' = [conn EXCEPT !.open = @ \ {c}]
    /\ ws' = uninitialised_exit(ws, c)
    /\ UNCHANGED <<engine, pending, result, step, calls, utterances, scen, obs,
                   decoded, recv, other, lock, pc, backend>>

\* the call of process_audio_chunk (or the telemetry around it) raises in the
\* handler: control passes to except Exception, no result is returned and
\* the engine is as the call found it
ProcessRaised(c) ==
    /\ ws.running = c /\ ws.at[c] = "process"
    /\ ws' = [ws EXCEPT !.running = "none", !.at[c] = "except_asr",
                        !.data[c] = NoFrame]
    /\ UNCHANGED <<engine, pending, result, step, calls, utterances, scen, obs,
                   decoded, recv, other, lock, pc, conn, backend>>

\* await process_user_input(result["text"]) raises
CoachRaised(c) ==
    /\ loop_free(ws)
    /\ ws.at[c] = "coach"
    /\ ws' = [ws EXCEPT !.at[c] = "except_coach"]
    /\ UNCHANGED <<engine, pending, result, step, calls, utterances, scen, obs,
                   decoded, recv, other, lock, pc, conn, backend>>

\* except Exception: the connection is closed with code 1000; finally: the
\* connection is uncounted and the handler returns
CloseOnError(c) ==
    /\ loop_free(ws)
    /\ ws.at[c] \in ExceptAt
    /\ ws' = update_connections(closed_on_error(ws, c), c, 0 - 1)
    /\ conn' = [conn EXCEPT !.open = IF ws'.at[c] = "done" THEN @ \ {c} ELSE @]
    /\ UNCHANGED <<engine, pending, result, step, calls, utterances, scen, obs,
                   decoded, recv, other, lock, pc, backend>>

\* self.model before __init__ has run
NoBackend ==
    [model |-> "none", creations |-> 0, warmups |-> 0, warmup_raised |-> FALSE,
     invoked |-> 0, audio |-> 0, streamed |-> 0]

\* _warmup_model: the one transcribe call over half a second of zeros
WarmupCall(outcome) ==
    [kind |-> "warmup", retry |-> FALSE, audio |-> <<>>, outcome |-> outcome,
     language |-> "bg", beam_size |-> warmup_beam_size,
     temperature |-> warmup_temperature,
     no_speech_threshold |-> warmup_no_speech_threshold,
     condition_on_previous_text |-> FALSE,
     word_timestamps |-> FALSE]

\* slip: an error of the warm-up decode leaves __init__ as well
construction_raises_on_warmup(created, warm) == ~created \/ warm.raises
\* __init__ raises what WhisperModel(...) raised; _warmup_model catches what
\* its decode raises
construction_raises(created, warm) == ~created

\* self.model after __init__: created says whether WhisperModel(...) returned,
\* warm is what the warm-up decode did
backend_constructed(created, warm) ==
    IF construction_raises(created, warm)
    THEN [NoBackend EXCEPT !.model = "failed", !.creations = 1,
                           !.warmups = IF created THEN 1 ELSE 0,
                           !.invoked = IF created THEN 1 ELSE 0,
                           !.warmup_raised = created /\ warm.raises]
    ELSE [NoBackend EXCEPT !.model = "loaded", !.creations = 1, !.warmups = 1,
                           !.invoked = 1, !.warmup_raised = warm.raises]

\* what the warm-up decode can do: raise, or return segments nobody reads
WarmupOutcomes == {o \in Outcomes : o.raises \/ (o.one_shot /\ o.segments # <<>>)}

\* the backend of an instance whose construction went through
WarmBackend == backend_constructed(TRUE, CHOOSE o \in WarmupOutcomes : ~o.raises)

\* ASRProcessor(config): the fields are set, the backend is created and warmed up
Construct ==
    /\ backend.model = "none"
    /\ \E created \in BOOLEAN :
         \E warm \in (IF created THEN WarmupOutcomes ELSE {AnyOutcome}) :
           /\ backend' = backend_constructed(created, warm)
           /\ calls' = IF created THEN <<WarmupCall(warm)>> ELSE <<>>
           /\ step' = [op |-> "construct", frame |-> NoFrame, request |-> "none",
                       src |-> IF backend_constructed(created, warm).model = "loaded"
                               THEN "constructed" ELSE "raised",
                       audio |-> <<>>, input |-> [created |-> created]]
    /\ LET s == NewInstance(vad_tail_ms)
       IN /\ max_silence_frames' = s.max_silence_frames
          /\ speech_frames' = s.speech_frames
          /\ silence_count' = s.silence_count
          /\ speech_triggered' = s.speech_triggered
          /\ partial_text' = s.partial_text
          /\ transcription_cache' = s.transcription_cache
    /\ result' = None
    /\ UNCHANGED <<vad_tail_ms, pending, utterances, scen, obs, decoded, recv,
                   other, lock, pc, conn, ws>>

\* the backend after a call that invoked it n times
backend_invoked(b, n, by) ==
    [b EXCEPT !.invoked = @ + n,
              !.audio = IF by = "audio" THEN @ + 1 ELSE @,
              !.streamed = IF by = "chunk" THEN @ + n ELSE @]

\* process_audio_chunk on a constructed instance, its invocations counted
CountedChunk ==
    /\ backend.model = "loaded"
    /\ pending = <<>>
    /\ \E chunk \in Chunks(1) :
         /\ chunk[1] \in PlainFrames
         /\ Len(speech_frames) + count_speech(chunk) <= MaxShort
         /\ \E o1 \in PrimaryOutcomes(chunk[1]) :
              \E o2 \in RetryOutcomes(chunk[1], o1) :
                FrameApplied(chunk[1], Tail(chunk), o1, o2)
    /\ Len(calls') <= MaxInvocations - backend.invoked
    /\ recv' = Received(frame_bytes)
    /\ backend' = backend_invoked(backend, Len(calls'), "chunk")
    /\ UNCHANGED <<other, lock, pc, conn, ws>>

\* process_audio on a constructed instance, its invocations counted
CountedAudio ==
    /\ backend.model = "loaded"
    /\ ProcessAudioApplied
    /\ Len(calls') <= MaxInvocations - backend.invoked
    /\ backend' = IF audio_given(step'.input)
                  THEN backend_invoked(backend, Len(calls'), "audio")
                  ELSE backend
    /\ UNCHANGED <<other, lock, pc, conn, ws>>

\* reset() on a constructed instance
CountedReset ==
    /\ backend.model = "loaded"
    /\ ResetApplied
    /\ UNCHANGED apart

(***************************************************************************)
(* Specifications                                                          *)
(***************************************************************************)
ConstructedOn(tail_ms, cache, b, w) ==
    /\ vad_tail_ms = tail_ms
    /\ max_silence_frames = silence_frames_for(tail_ms)
    /\ speech_frames = <<>>
    /\ silence_count = 0
    /\ speech_triggered = FALSE
    /\ partial_text = <<>>
    /\ transcription_cache = cache
    /\ pending = <<>>
    /\ result = None
    /\ calls = <<>>
    /\ step = [op |-> "init", frame |-> NoFrame, request |-> "none",
               src |-> "none", audio |-> <<>>]
    /\ utterances = 0
    /\ scen = NoScen
    /\ obs = NoObs
    /\ decoded = <<>>
    /\ recv = NoRecv
    /\ other = NoInstance
    /\ lock = "free"
    /\ pc = [t \in Threads |-> IdleThread]
    /\ conn = NoConn
    /\ backend = b
    /\ ws = w

\* an engine on a server that has accepted no connection
ConstructedWith(tail_ms, cache, b) == ConstructedOn(tail_ms, cache, b, NoLoop)

\* the state __init__ leaves when it returns
Constructed(tail_ms, cache) == ConstructedWith(tail_ms, cache, WarmBackend)

EmptyCache == <<>>

Init == \E tail_ms \in VadTailChoices : Constructed(tail_ms, EmptyCache)

Next == ProcessAudioChunk \/ ProcessEmptyChunk \/ Reset

Spec == Init /\ [][Next]_vars

\* the same instance fed chunks of several frames as well
NextChunks == Next \/ ProcessLongChunk \/ NextFrame

SpecChunks == Init /\ [][NextChunks]_vars

\* the instance with its one-shot interface used as well
NextAudio == Next \/ ProcessAudio

SpecAudio == Init /\ [][NextAudio]_vars

\* the instance fed chunks of any byte count, with a VAD that may fail
NextBytes ==
    \/ Next
    \/ ProcessOddBytes
    \/ ProcessPaddedBytes
    \/ NextFrame
    \/ VadRaisesFirst
    \/ VadRaisesNext

\* A long-running instance: earlier sessions have left n entries in the cache,
\* each the Final decode of a one-frame utterance of its own content.
filler_pcm(j) == cache_max_size + j

Prefilled(n) ==
    [k \in {_get_audio_hash(<<filler_pcm(j)>>) : j \in 1..n} |->
        [text |-> <<"a">>, confidence |-> final_default_confidence]]

InitCache ==
    \E tail_ms \in VadTailChoices :
      \E room \in {0, MaxCacheRoom} :
        Constructed(tail_ms, Prefilled(cache_max_size - room))

SpecCache == InitCache /\ [][Next]_vars

\* the byte-level interface of a long-running instance whose cache is full
InitFull == \E tail_ms \in VadTailChoices : Constructed(tail_ms, Prefilled(cache_max_size))

SpecBytes == InitFull /\ [][NextBytes]_vars

\* The engine as a closed session left it, in an utterance one speech frame
\* short of a Partial.
LeftActiveOn(tail_ms, w) ==
    LET frames == [i \in 1..(partial_every - 1) |-> Speech.pcm]
    IN /\ vad_tail_ms = tail_ms
       /\ max_silence_frames = silence_frames_for(tail_ms)
       /\ speech_frames = frames
       /\ silence_count = 0
       /\ speech_triggered = TRUE
       /\ partial_text = <<>>
       /\ transcription_cache = <<>>
       /\ pending = <<>>
       /\ result = None
       /\ calls = <<>>
       /\ step = [op |-> "frame", frame |-> Speech, request |-> "none",
                  src |-> "none", audio |-> <<>>]
       /\ utterances = 1
       /\ scen = [valid |-> TRUE, n |-> partial_every - 1, m |-> 0, finals |-> 0,
                  partials |-> 0]
       /\ obs = [in_utterance |-> TRUE, trailing_silence |-> 0, frames |-> frames]
       /\ decoded = <<>>
       /\ recv = Received(frame_bytes)
       /\ other = NoInstance
       /\ lock = "free"
       /\ pc = [t \in Threads |-> IdleThread]
       /\ conn = NoConn
       /\ backend = WarmBackend
       /\ ws = w

LeftActive(tail_ms) == LeftActiveOn(tail_ms, NoLoop)

\* The event loop of the server with its /ws/asr handlers.
InitLoop == \E tail_ms \in VadTailChoices : Constructed(tail_ms, <<>>) \/ LeftActive(tail_ms)

NextLoop ==
    \E c \in Connections :
        \/ LoopAccept(c)
        \/ ClientSend(c)
        \/ ReadChunk(c)
        \/ ProcessChunk(c)
        \/ SendEvent(c)
        \/ CoachReplied(c)
        \/ SendCoach(c)
        \/ SendPerformance(c)
        \/ LoopDisconnect(c)

SpecLoop == InitLoop /\ [][NextLoop]_vars

\* The handlers with telemetry enabled, on a server whose engine is in an
\* utterance or was never constructed (asr_processor is None), and with the
\* calls a handler makes able to raise.
Counting == [NoLoop EXCEPT !.telemetry = TRUE]

InitHandlers ==
    \E tail_ms \in VadTailChoices :
        \/ LeftActiveOn(tail_ms, Counting)
        \/ ConstructedOn(tail_ms, <<>>, NoBackend, Counting)

NextHandlers ==
    \/ NextLoop
    \/ \E c \in Connections :
          \/ AcceptUninitialised(c)
          \/ CloseUninitialised(c)
          \/ ProcessRaised(c)
          \/ CoachRaised(c)
          \/ CloseOnError(c)

SpecHandlers == InitHandlers /\ [][NextHandlers]_vars

\* The construction of the instance and its use afterwards, the backend
\* invocations counted.
InitConstruct == \E tail_ms \in VadTailChoices : ConstructedWith(tail_ms, <<>>, NoBackend)

NextConstruct ==
    \/ Construct
    \/ CountedChunk
    \/ CountedAudio
    \/ CountedReset
    \/ \E c \in Connections : conn.open = {} /\ Accept(c)

SpecConstruct == InitConstruct /\ [][NextConstruct]_vars

\* chunks of several frames on a long-running instance
SpecLongChunks == InitFull /\ [][NextChunks]_vars

\* process_audio and the streaming calls on a long-running instance
SpecTranscribe == InitFull /\ [][NextAudio]_vars

\* The timing scenario with the application's tail of 250 ms: the speech
\* frames, then the silence frames, one frame per chunk.
InitScenario == Constructed(app_vad_tail_ms, EmptyCache)

ScenarioFeed ==
    /\ pending = <<>>
    /\ ~(scen.n = ScenarioSpeechFrames /\ scen.m = ScenarioSilenceFrames)
    /\ LET frame == IF scen.n < ScenarioSpeechFrames THEN Speech ELSE Silence
       IN \E o1 \in PrimaryOutcomes(frame) :
            \E o2 \in RetryOutcomes(frame, o1) :
              FrameStep(frame, <<>>, o1, o2)
    /\ recv' = Received(frame_bytes)

NextScenario == ScenarioFeed

SpecScenario == InitScenario /\ [][NextScenario]_vars

\* Continuous speech: the caller feeds speech frames one per chunk and the
\* VAD never reports silence.
ContinuousSpeech ==
    /\ pending = <<>>
    /\ Len(speech_frames) < MaxContinuous
    /\ \E o1 \in PrimaryOutcomes(Speech) :
         \E o2 \in RetryOutcomes(Speech, o1) :
           FrameStep(Speech, <<>>, o1, o2)
    /\ recv' = Received(frame_bytes)

NextContinuous == ContinuousSpeech

SpecContinuous == InitFull /\ [][NextContinuous]_vars

\* Two threads call process_audio_chunk and reset() of the one instance.
NextThreads ==
    \E t \in Threads :
        Classify(t) \/ Acquire(t) \/ Apply(t) \/ ResetAcquire(t) \/ ResetRelease(t)

SpecThreads == Init /\ [][NextThreads]_vars

\* Two threads make a bounded number of calls of process_audio_chunk and
\* reset(); every thread that can take a step eventually takes one (the
\* threads keep running, and a decode returns or raises).
NextLock ==
    \E t \in Threads :
        \/ ClassifyWithin(t)
        \/ Acquire(t)
        \/ Apply(t)
        \/ ApplyRaised(t)
        \/ ResetEnter(t)
        \/ ResetAcquireCalled(t)
        \/ ResetRelease(t)

SpecLock ==
    /\ Init /\ [][NextLock]_vars
    /\ \A t \in Threads :
          /\ WF_vars(Acquire(t))
          /\ WF_vars(Apply(t) \/ ApplyRaised(t))
          /\ WF_vars(ResetAcquireCalled(t))
          /\ WF_vars(ResetRelease(t))

\* Two threads call process_audio_chunk of the one instance with chunks of
\* two frames.
NextChunkThreads ==
    \E t \in Threads : ClassifyFirst(t) \/ Acquire(t) \/ Apply(t)

SpecChunkThreads == Init /\ [][NextChunkThreads]_vars

\* The /ws/asr endpoint with its connections open at the same time.
NextSessions == \E c \in Connections : Accept(c) \/ Receive(c) \/ Disconnect(c)

SpecSessions == Init /\ [][NextSessions]_vars

\* Two instances: this one is fed the timing scenario, the second one is
\* constructed and called at any time in between.
NextTwo == ScenarioFeed \/ OtherConstruct \/ OtherProcessAudioChunk \/ OtherReset

SpecTwo == InitScenario /\ [][NextTwo]_vars

(***************************************************************************)
(* Properties                                                              *)
(***************************************************************************)
Idle == ~speech_triggered
Active == speech_triggered
SilenceFed == step.op = "frame" /\ ~step.frame.is_speech
CacheSize == Cardinality(DOMAIN transcription_cache)

\* C1: once a run of n >= 1 speech frames begun in Idle has been followed by
\* m silence frames with m * 20 ms >= vad_tail_ms, exactly one Final event has
\* been returned over the run and the engine is Idle with an empty buffer,
\* whatever the backend returned or raised.
C1_EndOfUtterance ==
    (scen.valid /\ scen.n >= 1 /\ scen.m * frame_duration >= vad_tail_ms)
        => (scen.finals = 1 /\ Idle /\ speech_frames = <<>>)

\* a run whose Partial was decoded and whose Final decode raised
C1_Witness ==
    /\ scen.valid /\ scen.n >= partial_every
    /\ scen.m * frame_duration >= vad_tail_ms
    /\ scen.partials = 1 /\ scen.finals = 1
    /\ IsFinal(result) /\ step.src = "error"

\* C2 (as claimed): with vad_tail_ms = 250, after 50 speech frames none of the
\* first 12 consecutive silence frames yields a Final, the 13th yields exactly
\* one, and speech frame 25 yields a Partial.
C2_ThirteenFrames ==
    /\ (scen.valid /\ scen.n = partial_every /\ scen.m = 0) => IsPartial(result)
    /\ (scen.valid /\ scen.n = ScenarioSpeechFrames /\ scen.m \in 1..12)
          => (scen.finals = 0 /\ ~IsFinal(result))
    /\ (scen.valid /\ scen.n = ScenarioSpeechFrames /\ scen.m = 13)
          => (scen.finals = 1 /\ IsFinal(result))
    /\ (scen.valid /\ scen.n = ScenarioSpeechFrames /\ scen.m > 13)
          => (scen.finals = 1 /\ ~IsFinal(result))

\* C3: a step returns a Final event exactly when it is a silence frame
\* processed while Active whose increment brings silence_count to
\* max_silence_frames or more; never a speech frame, a silence frame while
\* Idle, a silence frame that stays below the threshold, or reset().
C3_FinalOnlyAtTail ==
    [][ IsFinal(result') <=>
          /\ step'.op = "frame" /\ ~step'.frame.is_speech
          /\ Active
          /\ silence_count + 1 >= max_silence_frames ]_vars

\* a Final returned by the second silence frame of a tail of two
C3_Witness ==
    /\ IsFinal(result) /\ SilenceFed
    /\ max_silence_frames = 2 /\ obs = NoObs /\ scen.m = 2

\* C4: a step returns a Partial event exactly when it is a speech frame that
\* makes the number of speech frames of the utterance in progress a multiple
\* of 25; the frame is in the buffer and the engine Active when the event is
\* returned; the count starts again after each Final and each reset.
C4_PartialEvery25 ==
    [][ /\ IsPartial(result') <=>
             /\ step'.op = "frame" /\ step'.frame.is_speech
             /\ Len(obs'.frames) % partial_every = 0
        /\ IsPartial(result') =>
             /\ speech_triggered'
             /\ speech_frames' = Append(speech_frames, step'.frame.pcm)
             /\ Len(speech_frames') % partial_every = 0
        /\ (IsFinal(result') \/ step'.op = "reset") => obs'.frames = <<>> ]_vars

\* a Partial in the second utterance
C4_Witness ==
    /\ IsPartial(result) /\ utterances = 2
    /\ Len(speech_frames) = partial_every /\ Active

\* C5: Active implies a non-empty speech buffer.
C5_ActiveHasFrames == speech_triggered => speech_frames # <<>>

\* Active right after a Partial whose decode raised
C5_Witness ==
    /\ speech_triggered /\ IsPartial(result) /\ step.src = "error"
    /\ utterances = 2

\* C6: silence_count is 0 after every speech frame, one more after a silence
\* frame processed while Active that does not finalize, unchanged by a silence
\* frame while Idle and by an empty chunk, and 0 after a Final and after
\* reset; it always equals the number of consecutive silence frames fed since
\* the last speech frame of the utterance in progress.
C6_SilenceCount ==
    /\ [](silence_count = obs.trailing_silence)
    /\ [][ /\ (step'.op = "frame" /\ step'.frame.is_speech) => silence_count' = 0
           /\ (step'.op = "frame" /\ ~step'.frame.is_speech /\ Active /\ ~IsFinal(result'))
                 => silence_count' = silence_count + 1
           /\ (step'.op = "frame" /\ ~step'.frame.is_speech /\ Idle)
                 => silence_count' = silence_count
           /\ (IsFinal(result') \/ step'.op = "reset") => silence_count' = 0
           /\ step'.op = "empty" => silence_count' = silence_count ]_vars

\* counting again after a pause that speech had interrupted
C6_Witness ==
    /\ Active /\ ~scen.valid /\ silence_count = 1 /\ max_silence_frames = 2
    /\ SilenceFed

\* C7: in the state a step that returned a Final event leaves behind, the
\* buffer is empty, silence_count is 0, the engine is Idle and partial_text
\* is empty, whichever exit produced the event.
C7_FinalClearsState ==
    IsFinal(result) =>
        /\ speech_frames = <<>>
        /\ silence_count = 0
        /\ ~speech_triggered
        /\ partial_text = <<>>

\* a Final served from the cache after a Partial had set partial_text
C7_Witness ==
    /\ IsFinal(result) /\ step.src = "cache" /\ result.text # <<>>
    /\ Len(step.audio) = partial_every

\* reachable: the other exits that return a Final
C7_DecodeExit == IsFinal(result) /\ step.src = "decode"
C7_RetryExit == IsFinal(result) /\ step.src = "retry"
C7_ErrorExit == IsFinal(result) /\ step.src = "error"

\* C8: when a decode request (Partial or Final) is over a buffer whose first
\* decode gave non-empty text while the cache held fewer than 100 entries,
\* the event carries the text and the confidence of that first pass and the
\* backend is not invoked.
C8_CacheHit ==
    [][ (step'.op = "frame" /\ step'.request # "none" /\ step'.audio \in DOMAIN decoded)
          => /\ result'.type = step'.request
             /\ result'.text = decoded[step'.audio].text
             /\ result'.confidence = decoded[step'.audio].confidence
             /\ calls' = <<>> ]_vars

\* a Partial answered from an entry this instance stored, with a confidence
\* that is not the default of either path
C8_Witness ==
    /\ IsPartial(result) /\ step.src = "cache" /\ calls = <<>>
    /\ step.audio \in DOMAIN decoded
    /\ result.confidence = decoded[step.audio].confidence
    /\ result.confidence \notin {partial_default_confidence, final_default_confidence}

\* C9: the cache never holds more than 100 entries and every entry has
\* non-empty text; an entry once present stays, with the value it had; the
\* cache changes only by one insertion, made by a step whose decode gave
\* non-empty text while fewer than 100 entries were held (never by reset, a
\* cache hit, an empty result or an error); and a decode made while the cache
\* is full returns its event and leaves the cache as it was.
C9_CacheBounded ==
    /\ [](/\ CacheSize <= cache_max_size
          /\ \A k \in DOMAIN transcription_cache : transcription_cache[k].text # <<>>)
    /\ [][ /\ \A k \in DOMAIN transcription_cache :
                /\ k \in DOMAIN transcription_cache'
                /\ transcription_cache'[k] = transcription_cache[k]
           /\ transcription_cache' # transcription_cache =>
                /\ CacheSize < cache_max_size
                /\ step'.op = "frame" /\ step'.src \in {"decode", "retry"}
                /\ calls' # <<>>
                /\ result'.text # <<>>
                /\ DOMAIN transcription_cache' =
                       DOMAIN transcription_cache \cup {_get_audio_hash(step'.audio)}
                /\ transcription_cache'[_get_audio_hash(step'.audio)] =
                       [text |-> result'.text, confidence |-> result'.confidence]
           /\ (CacheSize = cache_max_size /\ calls' # <<>>) =>
                /\ transcription_cache' = transcription_cache
                /\ result'.type = step'.request
                /\ step'.request \in {"partial", "final"} ]_vars

\* new audio decoded to text while the cache is full, and not stored
C9_Witness ==
    /\ CacheSize = cache_max_size
    /\ step.src = "decode" /\ result.text # <<>> /\ calls # <<>>
    /\ _get_audio_hash(step.audio) \notin DOMAIN transcription_cache
    /\ decoded # <<>>

\* C10 (as claimed): every Final event comes with exactly one primary Final
\* invocation of the backend over the utterance's buffer, and its text and
\* confidence are the result of that decode or of its retry.
C10_FinalAlwaysDecoded ==
    IsFinal(result) =>
        /\ calls # <<>>
        /\ calls[1].kind = "final" /\ ~calls[1].retry
        /\ calls[1].beam_size = beam_size_final /\ calls[1].word_timestamps
        /\ calls[1].audio = step.audio
        /\ Cardinality({i \in 1..Len(calls) : ~calls[i].retry}) = 1

\* C10 (amended): a Final event is returned only for an utterance in progress
\* and ends it, and its request is over all the speech frames of that
\* utterance.  On a cache hit the backend is not invoked and the event carries
\* the cached text and confidence.  Otherwise the backend is invoked exactly
\* once as a primary Final request (beam_size_final, word_timestamps) over
\* that buffer, followed by at most one retry over the same buffer, and the
\* event carries the text and confidence of the primary decode, or of the
\* retry when there was one, or "" and 0.0 when the backend raised.
C10_FinalOncePerUtterance ==
    [][ IsFinal(result') =>
          /\ obs.in_utterance /\ ~obs'.in_utterance
          /\ step'.request = "final" /\ step'.audio = obs.frames
          /\ step'.audio # <<>>
          /\ IF _get_audio_hash(step'.audio) \in DOMAIN transcription_cache
             THEN /\ calls' = <<>>
                  /\ result'.text = transcription_cache[_get_audio_hash(step'.audio)].text
                  /\ result'.confidence =
                         transcription_cache[_get_audio_hash(step'.audio)].confidence
             ELSE /\ Len(calls') \in {1, 2}
                  /\ calls'[1].kind = "final" /\ ~calls'[1].retry
                  /\ calls'[1].beam_size = beam_size_final
                  /\ calls'[1].word_timestamps
                  /\ calls'[1].audio = step'.audio
                  /\ Len(calls') = 2 =>
                        /\ calls'[2].kind = "final" /\ calls'[2].retry
                        /\ calls'[2].audio = step'.audio
                  /\ LET last == calls'[Len(calls')]
                     IN IF last.outcome.raises
                        THEN result'.text = <<>> /\ result'.confidence = 0
                        ELSE /\ result'.text = transcribed_text(last.outcome)
                             /\ result'.confidence =
                                  average_confidence(last.outcome,
                                      IF last.retry THEN final_retry_default_confidence
                                      ELSE final_default_confidence) ]_vars

\* a Final whose text came from the retry of its one Final request
C10_Witness ==
    /\ IsFinal(result) /\ Len(calls) = 2 /\ result.text # <<>>
    /\ calls[1].kind = "final" /\ calls[2].retry

\* C11: a frame step invokes the backend at most twice, for one decode request
\* of the kind it returns; the first invocation is the primary one; there is a
\* second one exactly when the first returned normally with empty normalized
\* text and a no-speech probability above 0.8, and it is the retry over the
\* same audio; whatever the retry returns, nothing follows it.  Steps that
\* process no frame invoke nothing.
C11_BoundedRetry ==
    [][ /\ Len(calls') <= 2
        /\ step'.op # "frame" => calls' = <<>>
        /\ calls' # <<>> =>
              /\ step'.request \in {"partial", "final"}
              /\ result'.type = step'.request
              /\ calls'[1].kind = step'.request /\ ~calls'[1].retry
              /\ calls'[1].audio = step'.audio
              /\ Len(calls') = 2 <=>
                    /\ ~calls'[1].outcome.raises
                    /\ transcribed_text(calls'[1].outcome) = <<>>
                    /\ calls'[1].outcome.no_speech_prob > retry_no_speech_prob
        /\ Len(calls') = 2 =>
              /\ calls'[2].retry /\ calls'[2].kind = step'.request
              /\ calls'[2].audio = step'.audio ]_vars

\* a retry that again returned nothing with a high no-speech probability
C11_Witness ==
    /\ Len(calls) = 2 /\ calls[2].retry
    /\ ~calls[2].outcome.raises /\ calls[2].outcome.segments = <<>>
    /\ calls[2].outcome.no_speech_prob > retry_no_speech_prob
    /\ result.text = <<>>

\* C12: every event returned by a frame step and every result of
\* process_audio has a confidence between 0 and 1; a segment with
\* avg_logprob >= 0 counts 1.0 and one with avg_logprob <= -1 counts 0.0 in
\* the confidence computed from the segments of a decode.
C12_ConfidenceRange ==
    /\ result.type # "none" => (result.confidence >= 0 /\ result.confidence <= 1000)
    /\ (calls # <<>> /\ step.src \in {"decode", "retry"}) =>
          LET o == calls[Len(calls)].outcome
              n == Len(o.segments)
              ones == Cardinality({i \in 1..n : o.segments[i].avg_logprob >= 0})
              zeros == Cardinality({i \in 1..n : o.segments[i].avg_logprob <= 0 - 1000})
          IN (~o.one_shot /\ n > 0 /\ ones + zeros = n)
                => result.confidence * n = 1000 * ones

\* a Final decoded from one segment of avg_logprob 0 and one of avg_logprob -10
C12_Witness ==
    /\ IsFinal(result) /\ step.src = "decode" /\ Len(calls) = 1
    /\ Len(calls[1].outcome.segments) = 2
    /\ calls[1].outcome.segments[1].avg_logprob = 0
    /\ calls[1].outcome.segments[2].avg_logprob = 0 - 10000
    /\ result.confidence = 500

\* reachable: the same through process_audio
C12_AudioResult ==
    /\ step.op = "audio" /\ step.src = "decode"
    /\ Len(calls[1].outcome.segments) = 2 /\ result.confidence = 500

\* C13 (as claimed): the confidence of a decoded event is the arithmetic mean
\* of the clamped confidences of the segments of the decode that gave its
\* text, and when that decode yielded no segments it is 0.7 for a Partial
\* event and 0.85 for a Final event.
C13_MeanOrDefault ==
    (calls # <<>> /\ step.src \in {"decode", "retry"}) =>
        LET o == calls[Len(calls)].outcome
            n == Len(o.segments)
            clamped == [i \in 1..n |-> segment_confidence(o.segments[i].avg_logprob)]
        IN IF n > 0
           THEN result.confidence = sum(clamped) \div n
           ELSE result.confidence = (IF IsPartial(result) THEN partial_default_confidence
                                     ELSE final_default_confidence)

\* reachable: an event whose decode had segments and which carries the default
C13_SegmentsIgnored ==
    /\ IsFinal(result) /\ step.src = "decode"
    /\ Len(calls[1].outcome.segments) = 2 /\ calls[1].outcome.one_shot
    /\ result.confidence = final_default_confidence

\* reachable: a retry without segments, answered with the retry default
C13_RetryDefault ==
    /\ IsPartial(result) /\ step.src = "retry"
    /\ calls[2].outcome.segments = <<>>
    /\ result.confidence = partial_retry_default_confidence

\* C14: when the backend raises in the primary attempt or in the retry of a
\* decode request, the step returns an event of the requested kind with text
\* "" and confidence 0.0 and stores nothing; a Partial request leaves the
\* utterance in progress as it was, a Final request leaves the engine Idle
\* with an empty buffer and a zero silence counter; the speech frame that
\* follows such a Final begins a new utterance.
C14_BackendRaises ==
    [][ /\ (step'.op = "frame" /\ \E i \in 1..Len(calls') : calls'[i].outcome.raises)
              => /\ step'.request \in {"partial", "final"}
                 /\ result' = Event(step'.request, <<>>, 0)
                 /\ calls'[Len(calls')].outcome.raises
                 /\ transcription_cache' = transcription_cache
                 /\ step'.request = "final" =>
                       /\ speech_frames' = <<>> /\ silence_count' = 0
                       /\ ~speech_triggered' /\ partial_text' = <<>>
                 /\ step'.request = "partial" =>
                       /\ speech_frames' = Append(speech_frames, step'.frame.pcm)
                       /\ speech_triggered' /\ silence_count' = 0
                       /\ partial_text' = partial_text
        /\ (IsFinal(result) /\ step.src = "error" /\ step'.op = "frame"
              /\ step'.frame.is_speech)
              => /\ speech_frames' = <<step'.frame.pcm>>
                 /\ speech_triggered' /\ silence_count' = 0
                 /\ obs'.frames = speech_frames' ]_vars

\* a Final over a buffer of 25 frames or more whose retry raised
C14_Witness ==
    /\ IsFinal(result) /\ step.src = "error" /\ Len(calls) = 2
    /\ calls[2].outcome.raises /\ ~calls[1].outcome.raises
    /\ Len(step.audio) >= partial_every
    /\ Idle /\ speech_frames = <<>>

\* reachable: a Partial whose primary attempt raised
C14_PartialError ==
    /\ IsPartial(result) /\ step.src = "error" /\ Len(calls) = 1
    /\ Active /\ Len(speech_frames) = partial_every

\* C15: no exception leaves process_audio_chunk: whatever the byte count of
\* the chunk and whether the VAD or the backend fails, the call returns None
\* or one Partial or Final event; an exception raised in the body gives None,
\* a backend failure gives the event of the error path.
C15_NeverRaises ==
    /\ ~recv.escaped
    /\ result.type \in {"none", "partial", "final"}
    /\ recv.error # "none" => result = None
    /\ step.src = "error" =>
          /\ recv.error = "none"
          /\ result = Event(step.request, <<>>, 0)
          /\ step.request \in {"partial", "final"}

\* the VAD failed on the second frame of a chunk whose first frame began an
\* utterance
C15_Witness ==
    /\ recv.error = "VadError" /\ recv.applied = 1 /\ Len(recv.lengths) = 2
    /\ result = None /\ Active /\ step.op = "chunk_error"

\* reachable: a chunk of an odd number of bytes
C15_OddBytes ==
    /\ recv.error = "ValueError" /\ recv.nbytes = frame_bytes - 1 /\ result = None

\* reachable: a backend failure while a chunk with a short last frame is processed
C15_DecodeError ==
    /\ step.src = "error" /\ IsFinal(result) /\ recv.nbytes = sample_bytes

\* C16 (as claimed): for every non-empty chunk the samples are split into
\* frames of frame_size samples, the last one padded with zeros, and the
\* frames are classified and applied in order: unless the VAD fails, at least
\* the first frame of the chunk is applied, as many frames are made as the
\* bytes need, and each has frame_size samples.
C16_ShortInputPadded ==
    (recv.nbytes > 0 /\ recv.error # "VadError") =>
        /\ recv.applied >= 1
        /\ Len(recv.lengths) * frame_bytes >= recv.nbytes
        /\ (Len(recv.lengths) - 1) * frame_bytes < recv.nbytes
        /\ \A i \in 1..Len(recv.lengths) : recv.lengths[i] = frame_size

\* reachable: a chunk of one sample, padded, classified as speech and applied
C16_PaddedApplied ==
    /\ recv.nbytes = sample_bytes /\ recv.lengths = <<frame_size>>
    /\ recv.applied = 1 /\ step.op = "frame" /\ step.frame.is_speech
    /\ speech_frames # <<>>

\* C17: reset() leaves an empty buffer, silence_count 0, the engine Idle and
\* partial_text empty, whatever the state before; it keeps every cache entry,
\* invokes nothing and returns no event; a second reset changes nothing; and
\* the engine then counts as a new one does: the buffer is the speech frames
\* fed since the reset (or since the last Final), so the next Partial comes
\* with the 25th of them.
C17_Reset ==
    /\ [](speech_frames = obs.frames)
    /\ [](IsPartial(result) =>
            (Len(obs.frames) % partial_every = 0 /\ obs.frames # <<>>))
    /\ [][ /\ step'.op = "reset" =>
                /\ speech_frames' = <<>> /\ silence_count' = 0
                /\ ~speech_triggered' /\ partial_text' = <<>>
                /\ transcription_cache' = transcription_cache
                /\ calls' = <<>> /\ result' = None
                /\ obs' = NoObs
                /\ UNCHANGED <<vad_tail_ms, max_silence_frames>>
           /\ (step.op = "reset" /\ step'.op = "reset") => UNCHANGED engine
           /\ (step.op = "reset" /\ step'.op = "frame" /\ step'.frame.is_speech) =>
                /\ speech_frames' = <<step'.frame.pcm>>
                /\ speech_triggered' /\ ~IsPartial(result') ]_vars

\* after a reset of an instance whose cache holds the Partial of 25 frames
C17_Witness ==
    /\ step.op = "reset" /\ utterances = 1 /\ CacheSize = 1
    /\ \E k \in DOMAIN transcription_cache : Len(k.md5) = partial_every
    /\ speech_frames = <<>> /\ ~speech_triggered /\ partial_text = <<>>

\* C18: calls on the second instance leave the fields and the cache of this
\* instance and what its caller was returned as they are, and calls on this
\* instance leave the second one as it is; whatever the second instance is
\* fed in between, this instance holds exactly what its own stream gives: the
\* buffer is the speech frames fed to it, the counter its trailing silence,
\* the Partials come with its frames 25 and 50, the Final with the silence
\* frame that completes its tail, every decode is over its own frames, and its
\* cache holds what it decoded itself and nothing else.
C18_InstanceIsolation ==
    /\ [][ other' # other =>
             UNCHANGED <<engine, pending, result, step, calls, utterances, scen,
                         obs, decoded, recv>> ]_vars
    /\ [][ <<engine, result, step>>' # <<engine, result, step>> => other' = other ]_vars
    /\ [](scen.valid =>
            /\ scen.partials = scen.n \div partial_every
            /\ scen.finals = (IF scen.m >= max_silence_frames THEN 1 ELSE 0)
            /\ IF scen.finals = 0
               THEN /\ speech_frames = [i \in 1..scen.n |-> Speech.pcm]
                    /\ silence_count = scen.m /\ speech_triggered
               ELSE /\ speech_frames = <<>> /\ silence_count = 0
                    /\ ~speech_triggered)
    /\ [](result.type # "none" =>
            step.audio = [i \in 1..scen.n |-> Speech.pcm])
    /\ [](\A k \in DOMAIN transcription_cache :
            /\ k.md5 \in DOMAIN decoded
            /\ transcription_cache[k] = decoded[k.md5])

\* this instance is in its utterance while the second one, fed in between,
\* has finalized one of its own and begun another
C18_Witness ==
    /\ other # NoInstance
    /\ other.transcription_cache # <<>> /\ other.speech_triggered
    /\ speech_triggered /\ Len(speech_frames) > partial_every
    /\ silence_count > 0
    /\ \E k \in DOMAIN other.transcription_cache : k \notin DOMAIN transcription_cache

\* C19: each open /ws/asr connection has an engine of its own: the buffer
\* decoded for an event sent on a connection holds only frames received on
\* that connection, and a silence frame received on a connection advances the
\* silence counter of, or finalizes, only an utterance begun on that connection.
C19_EnginePerSession ==
    /\ [](result.type # "none" =>
            \A i \in DOMAIN step.audio : received_on(step.audio[i]) = conn.last)
    /\ [][ ( /\ step'.op = "frame" /\ ~step'.frame.is_speech
             /\ speech_frames # <<>>
             /\ (silence_count' # silence_count \/ result'.type = "final") )
           => received_on(Head(speech_frames)) = conn'.last ]_vars

\* both connections are open, and the Final sent on one is of a buffer with
\* frames received on both
C19_MixedFinal ==
    /\ conn.open = Connections
    /\ result.type = "final"
    /\ \E i, j \in DOMAIN step.audio :
         received_on(step.audio[i]) # received_on(step.audio[j])

\* C20: the lock has one holder, a thread is inside the locked part of
\* _process_frame or of reset() only as that holder, so at most one thread is
\* inside at a time; and every step that reads or writes the buffer, the
\* counter, the flags, partial_text or the cache, the cache lookup, the decode
\* and the store included, is taken by the holder, which then releases the
\* lock, while the fields stay as they are across every other step.
C20_LockDiscipline ==
    /\ [](\A t \in Threads : pc[t].at \in LockedAt <=> lock = t)
    /\ [](\A t, u \in Threads :
            (pc[t].at \in LockedAt /\ pc[u].at \in LockedAt) => t = u)
    /\ [][ (<<engine, result, calls, step>>' # <<engine, result, calls, step>>)
           => \E t \in Threads :
                 /\ lock = t /\ pc[t].at \in LockedAt
                 /\ lock' = "free" /\ pc'[t] = IdleThread
                 /\ \A u \in Threads \ {t} : pc'[u] = pc[u] /\ pc[u].at \notin LockedAt ]_vars

\* a thread holds the lock for a silence frame that ends the utterance begun
\* by a frame of the other thread, which has classified its next frame and
\* waits; the cache holds an entry stored under the lock before
C20_Witness ==
    /\ lock = "t2" /\ pc["t2"].at = "locked" /\ ~pc["t2"].frame.is_speech
    /\ pc["t1"].at = "classified"
    /\ speech_triggered /\ silence_count + 1 >= max_silence_frames
    /\ transcription_cache # <<>>

\* C30: a silence frame applied while Idle returns no event, makes no backend
\* call, issues no decode request and leaves the buffer, the counter, the
\* flag, partial_text and the cache as they are; so as long as no speech frame
\* has been fed, no call returns an event and the engine stays as constructed.
C30_IdleSilenceNoOp ==
    /\ [][ (step'.op = "frame" /\ ~step'.frame.is_speech /\ ~speech_triggered)
           => /\ result' = None /\ calls' = <<>> /\ step'.request = "none"
              /\ UNCHANGED <<speech_frames, silence_count, speech_triggered,
                             partial_text, transcription_cache>> ]_vars
    /\ [](utterances = 0 =>
            /\ result = None /\ calls = <<>>
            /\ speech_frames = <<>> /\ silence_count = 0 /\ ~speech_triggered
            /\ partial_text = <<>> /\ transcription_cache = <<>>)

\* a silence frame has been applied to an engine back in Idle after an
\* utterance whose text is cached
C30_Witness ==
    /\ step.op = "frame" /\ ~step.frame.is_speech
    /\ ~speech_triggered /\ result = None
    /\ utterances > 0 /\ transcription_cache # <<>>

\* C29: the cache has one keyspace, keyed by the bytes of the buffer alone: a
\* Partial or a Final request over a buffer whose key is in the cache makes no
\* backend call and returns the text and the confidence of the entry, whichever
\* request stored it, and a request stores under the key of its buffer only;
\* so the Final over the very buffer of a cached Partial returns the Partial's
\* text and confidence.
C29_SharedKeyspace ==
    /\ [][ (step'.op = "frame" /\ step'.request # "none"
              /\ _get_audio_hash(step'.audio) \in DOMAIN transcription_cache)
           => LET entry == transcription_cache[_get_audio_hash(step'.audio)]
              IN /\ result' = Event(step'.request, entry.text, entry.confidence)
                 /\ calls' = <<>> /\ step'.src = "cache" ]_vars
    /\ [][ DOMAIN transcription_cache' \ DOMAIN transcription_cache
             \subseteq {_get_audio_hash(step'.audio)} ]_vars
    /\ [][ (step'.op = "frame" /\ step'.request = "final"
              /\ Len(step'.audio) % partial_every = 0
              /\ _get_audio_hash(step'.audio) \in DOMAIN transcription_cache
              /\ partial_text # <<>>)
           => result'.text = partial_text ]_vars

\* in the first utterance of an instance constructed with an empty cache, the
\* Final over 25 speech frames is answered from the entry the Partial at frame
\* 25 stored, with the Partial's confidence
C29_Witness ==
    /\ IsFinal(result) /\ step.src = "cache" /\ calls = <<>>
    /\ utterances = 1 /\ Len(step.audio) = partial_every
    /\ result.text # <<>>
    /\ result.confidence \notin {partial_default_confidence, final_default_confidence}

\* C28: the backend calls of a frame step carry the parameters of their
\* request kind.  The primary call of a Partial request has beam_size_partial
\* and no word timestamps, that of a Final request beam_size_final and word
\* timestamps; both have the configured temperature and no_speech_threshold.
\* A retry is the second call of its request, over the audio of the first,
\* with no_speech_threshold 0.3 and temperature 0.2, and with beam size
\* beam_size_final + 1 for a Final and beam_size_partial for a Partial.  Every
\* call has language "bg" and condition_on_previous_text false.
C28_DecodeParameters ==
    step.op = "frame" =>
      /\ Len(calls) <= 2
      /\ \A i \in DOMAIN calls :
           LET c == calls[i]
           IN /\ c.kind = step.request /\ c.kind \in {"partial", "final"}
              /\ c.audio = step.audio
              /\ c.language = "bg" /\ ~c.condition_on_previous_text
              /\ c.retry <=> i = 2
              /\ IF ~c.retry
                 THEN /\ c.temperature = temperature
                      /\ c.no_speech_threshold = no_speech_threshold
                      /\ IF c.kind = "partial"
                         THEN c.beam_size = beam_size_partial /\ ~c.word_timestamps
                         ELSE c.beam_size = beam_size_final /\ c.word_timestamps
                 ELSE /\ c.temperature = 200
                      /\ c.no_speech_threshold = 300
                      /\ c.beam_size = (IF c.kind = "partial" THEN beam_size_partial
                                        ELSE beam_size_final + 1)

\* a Final request that was retried
C28_Witness ==
    /\ step.op = "frame" /\ step.request = "final"
    /\ Len(calls) = 2 /\ calls[2].retry /\ calls[2].beam_size = 3

\* a Partial request that was retried
C28_PartialRetry ==
    /\ step.op = "frame" /\ step.request = "partial"
    /\ Len(calls) = 2 /\ calls[2].retry /\ calls[2].beam_size = 1

\* C27: process_audio called with None or with an array of no samples returns
\* text "", confidence 0.0 and language "bg" without a backend call; called
\* with samples it makes exactly one backend call, never a retry, and when that
\* call raises it returns the same empty result; the language of every result
\* is "bg", whatever language the backend detected.
C27_ProcessAudioResult ==
    step.op = "audio" =>
      /\ result.language = "bg"
      /\ IF step.input.is_none \/ step.input.samples = <<>>
         THEN calls = <<>> /\ result = Transcript(<<>>, 0, "bg")
         ELSE /\ Len(calls) = 1 /\ calls[1].kind = "audio" /\ ~calls[1].retry
              /\ calls[1].outcome.raises => result = Transcript(<<>>, 0, "bg")
              /\ ~calls[1].outcome.raises =>
                    result.text = transcribed_text(calls[1].outcome)

\* samples in which the backend detected English and found text
C27_Witness ==
    /\ step.op = "audio" /\ ~step.input.is_none /\ step.input.samples # <<>>
    /\ Len(calls) = 1 /\ calls[1].outcome.language = "en"
    /\ result.text # <<>> /\ result.language = "bg"

\* reachable: None, an empty array, a backend that raises, and a backend that
\* finds no text with a high no-speech probability (not retried)
C27_NoneInput == step.op = "audio" /\ step.input.is_none /\ calls = <<>>
C27_EmptyInput ==
    step.op = "audio" /\ ~step.input.is_none /\ step.input.samples = <<>> /\ calls = <<>>
C27_BackendRaised ==
    step.op = "audio" /\ calls # <<>> /\ calls[1].outcome.raises /\ result.confidence = 0
C27_NotRetried ==
    /\ step.op = "audio" /\ Len(calls) = 1 /\ ~calls[1].outcome.raises
    /\ result.text = <<>> /\ calls[1].outcome.no_speech_prob > retry_no_speech_prob

\* C25: a call of process_audio_chunk applies the frames of its chunk in
\* order, one per iteration, and goes on to the next frame only while no frame
\* has yielded an event; the step that yields an event ends the call, so a call
\* returns at most one event, and the frames after it are never applied: the
\* buffer holds exactly the speech frames applied since the last Final, and
\* the counter and the state are those the event's step left.
C25_OneEventPerChunk ==
    /\ [](pending # <<>> => (result = None /\ step.op = "frame"))
    /\ [](recv.applied <= Len(recv.lengths))
    /\ [](recv.applied + Len(pending) < Len(recv.lengths) =>
            (result.type # "none" \/ recv.error # "none"))
    /\ [](speech_frames = obs.frames)
    /\ [][ pending # <<>> =>
             \/ UNCHANGED vars
             \/ /\ step'.op = "frame" /\ step'.frame = Head(pending)
                /\ recv'.applied = recv.applied + 1
                /\ IF result'.type # "none" THEN pending' = <<>>
                   ELSE pending' = Tail(pending) ]_vars
    /\ [][ (step'.op = "frame" /\ result'.type # "none") => pending' = <<>> ]_vars

\* the first frame of a chunk of two ended the utterance: the Final is
\* returned and the second frame is not applied
C25_Witness ==
    /\ IsFinal(result) /\ pending = <<>>
    /\ Len(recv.lengths) = 2 /\ recv.applied = 1
    /\ speech_frames = <<>> /\ silence_count = 0 /\ ~speech_triggered

\* a Partial returned from within a chunk, with a frame after it left
C25_PartialWithin ==
    /\ IsPartial(result) /\ pending = <<>>
    /\ recv.applied < Len(recv.lengths)
    /\ Len(speech_frames) = partial_every

\* C23: a constructed instance has had exactly one warm-up decode, made by its
\* construction before any caller audio is processed; no later step (a new
\* session, a chunk, process_audio, reset) makes a warm-up call or changes the
\* count of warm-ups; a process_audio call with samples adds exactly one
\* invocation, so that as long as no chunk has invoked the backend, it has
\* been invoked once plus the number of those process_audio calls.
C23_WarmupOnce ==
    /\ [](backend.model = "loaded" =>
            (backend.warmups = 1 /\ backend.creations = 1 /\ backend.invoked >= 1))
    /\ [](backend.model = "none" =>
            (backend.invoked = 0 /\ step.op = "init" /\ conn.open = {}))
    /\ [][ backend.model = "loaded" =>
             /\ backend'.warmups = backend.warmups
             /\ \A i \in DOMAIN calls' :
                  (calls'[i].kind # "warmup" \/ UNCHANGED <<calls, step>>) ]_vars
    /\ [][ backend'.creations # backend.creations =>
             (backend.model = "none" /\ backend.invoked = 0 /\ step'.op = "construct"
                /\ Len(calls') <= 1 /\ backend'.invoked = Len(calls')) ]_vars
    /\ [](backend.streamed = 0 /\ backend.model = "loaded" =>
            backend.invoked = 1 + backend.audio)

\* two process_audio calls with samples on an instance that has also seen a
\* session open and silence chunks: three invocations
C23_Witness ==
    /\ backend.model = "loaded" /\ backend.audio = 2 /\ backend.streamed = 0
    /\ backend.invoked = 3
    /\ conn.open # {} /\ step.op = "audio" /\ ~calls[1].outcome.raises

\* C24: when the creation of the backend raises, the construction raises: no
\* warm-up is made, the creation is not tried again and no operation is ever
\* done on the instance; when the creation succeeds the construction succeeds
\* whether the warm-up decode raised or not, and afterwards process_audio
\* answers a backend error with the empty result.
C24_ConstructionOutcome ==
    /\ [][ backend'.creations # backend.creations =>
             IF step'.input.created
             THEN /\ backend'.model = "loaded" /\ step'.src = "constructed"
                  /\ Len(calls') = 1 /\ calls'[1].kind = "warmup"
                  /\ backend'.warmup_raised = calls'[1].outcome.raises
             ELSE /\ backend'.model = "failed" /\ step'.src = "raised"
                  /\ calls' = <<>> ]_vars
    /\ [][ backend.model # "failed" ]_vars
    /\ [](backend.creations <= 1)
    /\ [](backend.model = "failed" => (step.op = "construct" /\ backend.invoked = 0))
    /\ []((step.op = "audio" /\ calls # <<>> /\ calls[1].outcome.raises)
            => result = Transcript(<<>>, 0, "bg"))

\* the warm-up raised, the instance was constructed, and a later
\* process_audio whose decode raised returned the empty result
C24_Witness ==
    /\ backend.model = "loaded" /\ backend.warmup_raised
    /\ step.op = "audio" /\ calls # <<>> /\ calls[1].outcome.raises
    /\ result = Transcript(<<>>, 0, "bg")

\* reachable: the creation of the backend raised
C24_CreationFailed == backend.model = "failed" /\ step.src = "raised"


(***************************************************************************)
(* The /ws/asr handlers on the event loop                                  *)
(***************************************************************************)
\* the messages still to be sent for the last result at a handler position
C26_Owed(c) ==
    LET at == ws.at[c]
        k == Len(ws.results[c])
    IN IF at = "send_event" THEN (IF ws.results[c][k].type = "final" THEN 3 ELSE 1)
       ELSE IF at \in {"coach", "send_coach"} THEN 2
       ELSE IF at = "send_performance" THEN 1
       ELSE 0

\* the messages the protocol asks for, for the results of chunks k, k+1, ...
RECURSIVE C26_Expected(_, _)
C26_Expected(results, k) ==
    IF k > Len(results) THEN <<>>
    ELSE LET e == results[k]
         IN (IF e.type = "partial" THEN <<Message("partial", k, e.text, e.confidence)>>
             ELSE IF e.type = "final"
             THEN <<Message("final", k, e.text, e.confidence),
                    Message("coach", k, <<>>, 0),
                    Message("performance", k, <<>>, 0)>>
             ELSE <<>>)
            \o C26_Expected(results, k + 1)

\* C21: within one connection the chunks are handed to process_audio_chunk in
\* arrival order and one at a time: a chunk is read only by a handler waiting
\* in receive_bytes, after every earlier chunk has its result and every message
\* that result causes has been sent, and it is the chunk that arrived first
\* among those waiting; a call of process_audio_chunk is left only by its
\* return, with the result of the chunk, never by a cancellation, a timeout or
\* the end of the connection.
C21_SessionOrder ==
    /\ [](\A c \in Connections :
            /\ ws.read[c] <= ws.arrived[c]
            /\ Len(ws.inbox[c]) = ws.arrived[c] - ws.read[c]
            /\ Len(ws.results[c]) = ws.read[c] - (IF ws.at[c] = "process" THEN 1 ELSE 0)
            /\ (ws.at[c] = "process" <=> ws.running = c))
    /\ [][\A c \in Connections :
            /\ ws'.read[c] # ws.read[c] /\ ws'.at[c] # "done" =>
                 /\ ws'.read[c] = ws.read[c] + 1
                 /\ ws.at[c] = "receive" /\ ws'.at[c] = "process"
                 /\ Len(ws.results[c]) = ws.read[c]
                 /\ ws.sent[c] = C26_Expected(ws.results[c], 1)
                 /\ ws'.data[c] = Head(ws.inbox[c])
                 /\ ws'.inbox[c] = Tail(ws.inbox[c])
            /\ ws.inbox[c] # <<>> /\ ws'.inbox[c] # ws.inbox[c] /\ ws'.read[c] = ws.read[c]
                 /\ ws'.at[c] # "done" =>
                 \E frame \in PlainFrames : ws'.inbox[c] = Append(ws.inbox[c], frame)
            /\ ws.at[c] = "process" /\ ws'.at[c] # "process" =>
                 /\ ws'.results[c] = Append(ws.results[c], result')
                 /\ ws'.at[c] \in {"receive", "send_event"}
                 /\ step'.frame = ws.data[c]]_vars

\* a chunk has arrived and waits while the coach reply of the chunk before it,
\* which ended an utterance, is still pending
C21_Witness ==
    \E c \in Connections :
        /\ ws.at[c] = "coach"
        /\ ws.inbox[c] # <<>>
        /\ ws.results[c][Len(ws.results[c])].type = "final"

\* C22: while the decode of one connection's chunk is in progress, the handler
\* of another connection that waits in receive_bytes with a chunk already
\* arrived can run.
C22_DecodeOffLoop ==
    \A c, d \in Connections :
        (c # d /\ decode_in_progress(c) /\ awaiting_receive(ws.at[d]) /\ ws.inbox[d] # <<>>)
            => loop_free(ws)

C31_SpeechBuffer ==
    /\ [](/\ speech_frames = obs.frames
          /\ \A i \in 1..Len(speech_frames) :
                speech_frames[i] \in {Speech.pcm, OtherSpeech.pcm})
    /\ [][ /\ (step'.op = "frame" /\ step'.frame.is_speech) =>
                 speech_frames' = Append(speech_frames, step'.frame.pcm)
           /\ (step'.op = "frame" /\ ~step'.frame.is_speech /\ ~IsFinal(result')) =>
                 speech_frames' = speech_frames
           /\ (\E i \in 1..Len(speech_frames) :
                   i > Len(speech_frames') \/ speech_frames'[i] # speech_frames[i]) =>
                 /\ speech_frames' = <<>>
                 /\ IsFinal(result') \/ step'.op = "reset"
           /\ IsFinal(result') =>
                 /\ step'.audio = speech_frames /\ step'.audio = obs.frames
                 /\ \A i \in 1..Len(calls') : calls'[i].audio = speech_frames ]_vars

\* a Final over the 26 speech frames of an utterance that had a silence frame
\* inside it
C31_Witness ==
    /\ IsFinal(result) /\ calls # <<>>
    /\ Len(step.audio) > partial_every
    /\ ~scen.valid
    /\ max_silence_frames = 2


\* C32: a Final is returned only on a silence frame, for an utterance that has
\* had a speech frame since the Final before it, and leaves the engine Idle
\* with no utterance in progress; a Partial is returned only on a speech
\* frame and leaves the engine Active in the utterance it belongs to, whose
\* Final is still to come; a run of speech then silence begun in Idle has at
\* most one Final, after its speech and after its Partials.
C32_EventOrder ==
    /\ [](IsFinal(result) => Idle /\ ~obs.in_utterance /\ speech_frames = <<>>)
    /\ [](IsPartial(result) => Active /\ obs.in_utterance)
    /\ [](scen.valid => /\ scen.finals <= 1
                        /\ scen.finals = 1 => scen.m >= 1
                        /\ scen.partials = scen.n \div partial_every)
    /\ [][ /\ IsFinal(result') =>
                 /\ step'.op = "frame" /\ ~step'.frame.is_speech
                 /\ Active /\ obs.in_utterance /\ obs.frames # <<>>
                 /\ Idle' /\ ~obs'.in_utterance
           /\ IsPartial(result') =>
                 /\ step'.op = "frame" /\ step'.frame.is_speech
                 /\ Active' /\ obs'.in_utterance
                 /\ ~IsFinal(result) => obs'.frames = Append(obs.frames, step'.frame.pcm)
           /\ (IsFinal(result) /\ step'.op = "frame" /\ ~step'.frame.is_speech) =>
                 result' = None ]_vars

\* the Final of a second utterance, which had given a Partial at its 25th
\* frame
C32_Witness ==
    /\ IsFinal(result) /\ utterances = 2
    /\ Len(step.audio) = partial_every
    /\ scen.valid /\ scen.partials = 1 /\ scen.finals = 1


\* C33: in every reachable state the frames held for the utterance in
\* progress are at most the declared capacity of the audio buffer, 1000.
C33_BufferBounded == Len(speech_frames) <= audio_buffer_maxlen


(***************************************************************************)
(* The exits of a /ws/asr handler                                          *)
(***************************************************************************)
\* C34: a handler in which process_audio_chunk or the coaching pipeline has
\* raised only closes its connection, with code 1000, and returns: it reads
\* and processes no further chunk and sends nothing more; when the coaching
\* pipeline raised, the 'final' message of the chunk is the last one sent and
\* no 'coach' message for it follows.  The failure and the close change
\* neither the engine nor anything of another connection, and every
\* connection whose handler has not failed goes on being sent exactly the
\* messages its results ask for.
C34_HandlerError ==
    /\ [](\A c \in Connections :
            /\ ws.at[c] = "except_coach" =>
                 /\ ws.sent[c] # <<>>
                 /\ ws.sent[c][Len(ws.sent[c])].type = "final"
                 /\ ws.sent[c][Len(ws.sent[c])].chunk = ws.read[c]
                 /\ \A i \in 1..Len(ws.sent[c]) :
                      ws.sent[c][i].type = "coach" => ws.sent[c][i].chunk < ws.read[c]
            /\ ws.at[c] = "except_asr" =>
                 /\ Len(ws.results[c]) = ws.read[c] - 1
                 /\ ws.sent[c] = C26_Expected(ws.results[c], 1)
            /\ ws.at[c] \in ExceptAt => c \in conn.open /\ ws.running # c
            /\ ws.code[c] # 0 => ws.code[c] = close_code /\ ws.at[c] = "done"
            /\ ws.at[c] \notin (ExceptAt \cup {"done", "closed"}) =>
                 LET expected == C26_Expected(ws.results[c], 1)
                 IN /\ Len(ws.sent[c]) = Len(expected) - C26_Owed(c)
                    /\ ws.sent[c] = SubSeq(expected, 1, Len(ws.sent[c])))
    /\ [][\A c \in Connections :
            /\ ws.at[c] \in ExceptAt /\ ws'.at[c] # ws.at[c] =>
                 /\ ws'.at[c] = "done" /\ ws'.code[c] = close_code
                 /\ c \notin conn'.open
                 /\ UNCHANGED engine
                 /\ \A d \in Connections \ {c} :
                      /\ ws'.at[d] = ws.at[d] /\ ws'.inbox[d] = ws.inbox[d]
                      /\ ws'.read[d] = ws.read[d] /\ ws'.sent[d] = ws.sent[d]
                      /\ ws'.results[d] = ws.results[d] /\ ws'.code[d] = ws.code[d]
            /\ ws.at[c] \in ExceptAt /\ ws'.at[c] = ws.at[c] =>
                 /\ ws'.read[c] = ws.read[c] /\ ws'.sent[c] = ws.sent[c]
                 /\ ws'.results[c] = ws.results[c]
            /\ ws.at[c] \notin ExceptAt /\ ws'.at[c] \in ExceptAt =>
                 /\ ws.at[c] \in {"process", "coach"}
                 /\ ws'.sent[c] = ws.sent[c] /\ ws'.read[c] = ws.read[c]
                 /\ UNCHANGED engine
            /\ ws.at[c] = "done" =>
                 /\ ws'.at[c] = "done" /\ ws'.read[c] = 0 /\ ws'.sent[c] = <<>>
                 /\ ws'.inbox[c] = <<>> /\ ws'.code[c] = ws.code[c]]_vars

\* one connection was closed with code 1000 after a failure, and the other has
\* since had a chunk processed to a Final and been sent 'final', 'coach' and
\* 'performance'
C34_Witness ==
    /\ ws.code["c1"] = close_code
    /\ conn.last = "c2"
    /\ ws.at["c2"] = "receive"
    /\ ws.sent["c2"] # <<>>
    /\ ws.sent["c2"][Len(ws.sent["c2"])].type = "performance"

\* reachable: the coaching pipeline has raised after the 'final' was sent
C34_CoachRaised == \E c \in Connections : ws.at[c] = "except_coach"

\* C35: while asr_processor is None every connection is accepted and then
\* closed with code 1000, and no chunk is read or processed; with telemetry
\* enabled every accepted connection has been counted exactly once, is
\* uncounted exactly once when its handler returns, whichever way it returns,
\* and not before, so the counter is the number of connections being handled.
C35_ConnectionCounter ==
    /\ [](\A c \in Connections :
            /\ ws.inc[c] = (IF ws.at[c] = "closed" THEN 0 ELSE 1)
            /\ ws.dec[c] = (IF ws.at[c] = "done" THEN 1 ELSE 0)
            /\ backend.model # "loaded" =>
                 /\ ws.at[c] \in {"closed", "close_uninitialised", "done"}
                 /\ ws.read[c] = 0 /\ ws.results[c] = <<>> /\ ws.sent[c] = <<>>
                 /\ ws.at[c] = "done" => ws.code[c] = close_code
                 /\ step.op = "init" /\ speech_frames = <<>>)
    /\ [](ws.active = Cardinality({c \in Connections : ws.at[c] \notin {"closed", "done"}}))
    /\ [](ws.active = Cardinality(conn.open))

\* with asr_processor None, one connection has been accepted, closed with
\* code 1000 and uncounted, and another is accepted and about to be closed
C35_Witness ==
    /\ backend.model # "loaded"
    /\ ws.at["c1"] = "done" /\ ws.code["c1"] = close_code
    /\ ws.inc["c1"] = 1 /\ ws.dec["c1"] = 1
    /\ ws.at["c2"] = "close_uninitialised"
    /\ ws.arrived["c2"] > 0
    /\ ws.active = 1

\* reachable: the exits of an initialised handler, each uncounted once
C35_AfterDisconnect ==
    \E c \in Connections : ws.at[c] = "done" /\ ws.code[c] = 0 /\ ws.dec[c] = 1
C35_AfterError ==
    \E c \in Connections :
        ws.at[c] = "done" /\ ws.code[c] = close_code /\ ws.dec[c] = 1
            /\ backend.model = "loaded"


\* C36: a Partial request whose decode raised leaves the buffer, the silence
\* counter, speech_triggered, partial_text and the cache as they were once the
\* triggering frame had been appended: the engine is Active with the frame
\* buffered, and the utterance goes on, so the request of its Final is over
\* all its speech frames, those before the failed Partial included.
C36_PartialErrorKeepsUtterance ==
    /\ [][ (IsPartial(result') /\ step'.src = "error") =>
              /\ step'.frame.is_speech
              /\ speech_frames' = Append(speech_frames, step'.frame.pcm)
              /\ silence_count' = 0
              /\ speech_triggered'
              /\ partial_text' = partial_text
              /\ transcription_cache' = transcription_cache
              /\ result'.text = <<>> /\ result'.confidence = 0
              /\ obs'.in_utterance /\ obs'.frames = speech_frames' ]_vars
    /\ [][ (IsPartial(result) /\ step.src = "error" /\ step'.op = "frame") =>
              IF step'.frame.is_speech
              THEN speech_frames' = Append(speech_frames, step'.frame.pcm)
              ELSE IF IsFinal(result')
              THEN step'.audio = speech_frames /\ Len(step'.audio) >= partial_every
              ELSE speech_frames' = speech_frames /\ speech_triggered' ]_vars
    /\ [][ IsFinal(result') => step'.audio = obs.frames ]_vars

\* the Partial request at the 25th frame raised and the engine is Active with
\* the 25 frames
C36_Witness ==
    /\ IsPartial(result) /\ step.src = "error"
    /\ calls # <<>> /\ calls[1].outcome.raises
    /\ Len(speech_frames) = partial_every /\ speech_triggered
    /\ silence_count = 0

\* reachable: a Final decoded over the 25 frames of an utterance whose
\* Partial had left no cache entry for them, as a Partial that raised does
C36_FinalAfter ==
    /\ IsFinal(result) /\ step.src = "decode"
    /\ Len(step.audio) = partial_every
    /\ result.text # <<>>


\* C37: between the steps of any sequence of process_audio_chunk and reset
\* calls, speech_triggered holds exactly when the buffer is non-empty; while
\* Idle silence_count is 0 and partial_text is empty; and with
\* max_silence_frames >= 1 the silence counter is at least 0 and below
\* max_silence_frames.
C37_StateShape ==
    /\ speech_triggered <=> speech_frames # <<>>
    /\ ~speech_triggered => silence_count = 0 /\ partial_text = <<>>
    /\ max_silence_frames >= 1 =>
          silence_count >= 0 /\ silence_count < max_silence_frames

\* Active after a Partial that gave text, one silence frame short of the end
\* of the utterance
C37_Witness ==
    /\ speech_triggered /\ partial_text # <<>>
    /\ max_silence_frames = 2 /\ silence_count = 1
    /\ Len(speech_frames) >= partial_every


(***************************************************************************)
(* Threads that submit chunks of several frames                            *)
(***************************************************************************)
\* C38: two threads' chunks are applied one chunk after the other: while a
\* thread has applied a frame of its chunk and has frames of it left, no
\* other thread applies a frame.
C38_ChunkSerialised ==
    [][\A t, u \in Threads :
          (t # u /\ pc[t].done > 0 /\ pc[t].at # "idle")
              => ~(pc[u].at = "locked" /\ lock = u /\ lock' = "free")]_vars

\* reachable: the buffer holds the first frame of t1's chunk and then the
\* first frame of t2's, and both threads hold the second frame of their chunk
C38_Interleaved ==
    /\ Len(speech_frames) = 2
    /\ \A t \in Threads : pc[t].done = 1 /\ pc[t].at = "classified"
    /\ step.frame.is_speech /\ utterances = 1


(***************************************************************************)
(* The lock under concurrent calls                                         *)
(***************************************************************************)
\* C39: the lock is asked for only by a thread that does not hold it, and
\* every exit of the locked part of a frame step or of reset() releases it;
\* so a held lock is always released again, and every call of
\* process_audio_chunk or reset() that waits for the lock acquires it and
\* completes.
C39_LockLiveness ==
    /\ [](\A t \in Threads : lock = t <=> pc[t].at \in LockedAt)
    /\ [][\A t \in Threads :
            /\ lock' = t /\ lock # t =>
                 /\ lock = "free"
                 /\ pc[t].at \in {"classified", "reset_called"}
            /\ pc[t].at \in LockedAt /\ pc'[t] # pc[t] =>
                 /\ lock' = "free" /\ pc'[t].at = "idle"]_vars
    /\ \A t \in Threads : (lock = t) ~> (lock = "free")
    /\ \A t \in Threads :
          (pc[t].at \in {"classified", "reset_called"}) ~> (pc[t].at = "idle")

\* a thread that called reset() waits for the lock while the other holds it
\* for a silence frame that ends the utterance
C39_Witness ==
    /\ pc["t1"].at = "reset_called"
    /\ lock = "t2" /\ pc["t2"].at = "locked" /\ ~pc["t2"].frame.is_speech
    /\ speech_triggered /\ silence_count + 1 >= max_silence_frames

\* reachable: the lock is free again after the except branch of a decode
C39_AfterError ==
    /\ lock = "free" /\ step.src = "error"
    /\ \E t \in Threads : pc[t].at = "reset_called"

====
